---- MODULE Spec2Model ----
\* Model of the mq document indexer (lib/parser.go) and of the MQL executor
\* (mql/compiler.go).  Pointers are indices into the arenas doc.headings,
\* doc.sections and doc.codeBlocks; 0 is the nil pointer.
EXTENDS Integers, Sequences, FiniteSets, TLC

\* ------------------------------------------------------------------ bounds
MaxNodes == 3
MaxCodeLines == 1
MaxSliceLen == 3
MaxSliceIdx == 5
MaxRuns == 2

\* heading levels are H1..H6
MaxLevel == 6

Texts == {"A", "B"}
Langs == {"", "go"}
Levels == 1..MaxLevel

Nil == 0

\* ------------------------------------------------------------ state
VARIABLES
  walked,           \* AST nodes handed to the walk callback so far, with their source line
  trailingNewline,  \* whether the source ends with a newline byte
  doc,              \* the Document under construction / constructed
  sectionStack,     \* buildIndexes local: open sections, bottom first
  currentSection,   \* buildIndexes local: section receiving leaf content
  pc,               \* "walk" while ast.Walk runs, "done" after buildIndexes returned
  query,            \* the compiled query (its AST) handed to the executor
  current,          \* EvalContext.Current as the last evaluation left it
  results,          \* what the successive evaluations of query returned
  tasks,            \* goroutines evaluating queries against doc
  fnArgs,           \* arguments of a helper function under test
  fnOut             \* what the helper returned

evalVars == <<query, current, results, tasks>>
fnVars == <<fnArgs, fnOut>>
vars == <<walked, trailingNewline, doc, sectionStack, currentSection, pc, evalVars, fnVars>>

\* ------------------------------------------------------------ values
\* a Go interface{} value: its dynamic type t and its payload v
NilV == [t |-> "nil", v |-> 0]
DocV == [t |-> "*Document", v |-> 0]
BoolV(b) == [t |-> "bool", v |-> b]
IntV(i) == [t |-> "int", v |-> i]
Int64V(i) == [t |-> "int64", v |-> i]
StrV(x) == [t |-> "string", v |-> x]
HeadingV(i) == [t |-> "*Heading", v |-> i]
SectionV(i) == [t |-> "*Section", v |-> i]
CodeBlockV(i) == [t |-> "*CodeBlock", v |-> i]
LinkV(i) == [t |-> "*Link", v |-> i]
HeadingsV(x) == [t |-> "[]*Heading", v |-> x]
SectionsV(x) == [t |-> "[]*Section", v |-> x]
CodeBlocksV(x) == [t |-> "[]*CodeBlock", v |-> x]
LinksV(x) == [t |-> "[]*Link", v |-> x]
ListV(x) == [t |-> "[]interface{}", v |-> x]
TreeV(x) == [t |-> "*TreeResult", v |-> x]

\* the absent child of an AST node (a nil QueryNode)
\* a Go string holding source bytes (Section.GetText(), CodeBlock.Content):
\* what it is the text of; it differs from every string the queries draw
\* and whether it is the empty string
TextV(kind, i, empty) == [t |-> "text", v |-> <<kind, i, empty>>]
TextsV(x) == [t |-> "[]string", v |-> x]
NoNode == [kind |-> "None"]

SliceTypes == {"[]*Heading", "[]*Section", "[]*CodeBlock", "[]*Link", "[]interface{}", "[]string"}

\* query AST nodes
PipeN(l, r) == [kind |-> "Pipe", left |-> l, right |-> r]
SelectorN(name, args) == [kind |-> "Selector", name |-> name, args |-> args]
FilterN(pred) == [kind |-> "Filter", predicate |-> pred]
FunctionN(name, args) == [kind |-> "Function", name |-> name, args |-> args]
BinaryN(op, l, r) == [kind |-> "Binary", operator |-> op, left |-> l, right |-> r]
UnaryN(op, x) == [kind |-> "Unary", operator |-> op, operand |-> x]
LiteralN(val) == [kind |-> "Literal", value |-> val]
IdentifierN(name) == [kind |-> "Identifier", name |-> name]
IndexN(obj, idx) == [kind |-> "Index", object |-> obj, index |-> idx]
SliceN(obj, start, end) == [kind |-> "Slice", object |-> obj, start |-> start, end |-> end]

\* ------------------------------------------------------------ helpers
Last(s) == s[Len(s)]
Front(s) == SubSeq(s, 1, Len(s) - 1)

\* m[k] for a Go map read of a missing key that yields the empty slice
Lookup(m, k) == IF k \in DOMAIN m THEN m[k] ELSE <<>>

\* m[k] = v
Store(m, k, v) == [x \in DOMAIN m \cup {k} |-> IF x = k THEN v ELSE m[x]]

\* number of source lines a node spans
Height(n) == IF n.kind \in {"code", "frontmatter"} THEN n.lines + 2
             ELSE IF n.kind = "link" THEN 0
             ELSE 1

RECURSIVE SumHeights(_)
SumHeights(ns) == IF ns = <<>> THEN 0 ELSE Height(Last(ns)) + SumHeights(Front(ns))

\* len(computeLineStarts(source)): number of newline bytes + 1
TotalLines(ns, nl) ==
  LET n == SumHeights(ns) IN
  IF n = 0 THEN 1 ELSE IF nl THEN n + 1 ELSE n

\* Document as allocated by Parser.Parse before buildIndexes runs
EmptyDoc ==
  [ headings        |-> <<>>,
    sections        |-> <<>>,
    codeBlocks      |-> <<>>,
    links           |-> <<>>,
    headingIndex    |-> <<>>,
    headingsByLevel |-> <<>>,
    sectionIndex    |-> <<>>,
    codeByLang      |-> <<>>,
    metadata        |-> {} ]

\* ------------------------------------------------------------ indexer
\* heading.Line: set from the node's first line segment when it has one
HeadingLine(n) == IF n.hasLines THEN n.line ELSE 0

\* loop condition of the pop loop: the open section on top is at the same or a
\* deeper level than the new heading
ShouldCloseStrict(topLevel, level) == topLevel > level
ShouldClose(topLevel, level) == topLevel >= level

\* prev.End = heading.Line - 1
ClosedEndSameLine(line) == line
ClosedEnd(line) == line - 1

\* parent.Children = append(parent.Children, section)
AddChildNever(secs, parent, sid) == secs
AddChild(secs, parent, sid) == [secs EXCEPT ![parent].Children = Append(@, sid)]

\* doc.sectionIndex[heading.Text] = section
IndexSectionFirstWins(m, text, sid) == IF text \in DOMAIN m THEN m ELSE Store(m, text, sid)
IndexSection(m, text, sid) == Store(m, text, sid)

\* the pop loop of the heading case: close and pop every open section whose
\* level is >= the new heading's level
RECURSIVE CloseSections(_, _, _, _, _)
CloseSections(secs, hds, stack, level, line) ==
  IF Len(stack) > 0 /\ ShouldClose(hds[secs[Last(stack)].Heading].Level, level)
  THEN LET prev == Last(stack)
           secs2 == IF line > 0
                    THEN [secs EXCEPT ![prev].End = ClosedEnd(line)]
                    ELSE secs
       IN CloseSections(secs2, hds, Front(stack), level, line)
  ELSE [sections |-> secs, stack |-> stack]

\* case *ast.Heading of the walk callback
IndexHeading(d, stack, n) ==
  LET heading == [Level |-> n.level, Text |-> n.text, ID |-> "", Line |-> HeadingLine(n)]
      hid     == Len(d.headings) + 1
      hds     == Append(d.headings, heading)
      sid     == Len(d.sections) + 1
      closed  == CloseSections(d.sections, hds, stack, heading.Level, heading.Line)
      parent  == IF Len(closed.stack) > 0 THEN Last(closed.stack) ELSE Nil
      section == [Heading |-> hid, Start |-> heading.Line, End |-> 0,
                  Parent |-> parent, Children |-> <<>>, codeBlocks |-> <<>>]
      secs1   == IF parent # Nil
                 THEN AddChild(closed.sections, parent, sid)
                 ELSE closed.sections
  IN [ doc |-> [d EXCEPT
                  !.headings        = hds,
                  !.headingIndex    = Store(@, heading.Text, hid),
                  !.headingsByLevel = Store(@, heading.Level,
                                            Append(Lookup(@, heading.Level), hid)),
                  !.sections        = Append(secs1, section),
                  !.sectionIndex    = IndexSection(@, heading.Text, sid)],
       sectionStack   |-> Append(closed.stack, sid),
       currentSection |-> sid ]

\* case *ast.FencedCodeBlock of the walk callback
IndexCodeBlock(d, cur, n) ==
  LET cb  == [Language |-> n.lang, Lines |-> n.lines, Newlines |-> n.lines]
      cid == Len(d.codeBlocks) + 1
  IN [d EXCEPT
        !.codeBlocks = Append(@, cb),
        !.codeByLang = IF cb.Language # ""
                       THEN Store(@, cb.Language, Append(Lookup(@, cb.Language), cid))
                       ELSE @,
        !.sections   = IF cur # Nil
                       THEN [@ EXCEPT ![cur].codeBlocks = Append(@, cid)]
                       ELSE @]

\* case *ast.Link of the walk callback
IndexLink(d, n) == [d EXCEPT !.links = Append(@, [Text |-> n.text, URL |-> "u"])]

\* the final loop of buildIndexes: sections whose End is still <= 0 end at the
\* last line
FixEndsSkipped(d, totalLines) == d
FixEnds(d, totalLines) ==
  [d EXCEPT !.sections =
     [i \in DOMAIN @ |-> IF @[i].End <= 0 THEN [@[i] EXCEPT !.End = totalLines] ELSE @[i]]]


\* ------------------------------------------------------------ executor helpers
\* what a helper or a node evaluation returns: a value and an error; a Go
\* panic is recorded as an error whose text starts with "panic"
Outcome(val, err) == [val |-> val, err |-> err]
\* the helper under test has not returned yet
NotRun == Outcome(NilV, "not run")
\* the panic of reflect.Value.Slice
SliceOutOfBounds == "panic: reflect.Value.Slice: slice index out of bounds"

\* toInt
ToInt(x) == IF x.t \in {"int", "int64", "float64"}
            THEN [i |-> x.v, ok |-> TRUE]
            ELSE [i |-> 0, ok |-> FALSE]

\* start bound of getSlice
SliceStart(start) ==
  IF start # NilV /\ ToInt(start).ok
  THEN (IF ToInt(start).i < 0 THEN 0 ELSE ToInt(start).i)
  ELSE 0

\* end bound of getSlice
SliceEnd(end, length) ==
  IF end # NilV /\ ToInt(end).ok
  THEN (IF ToInt(end).i > length THEN length ELSE ToInt(end).i)
  ELSE length

\* getSlice; reflect.Value.Slice(i, j) panics unless 0 <= i <= j <= cap
GetSlice(obj, start, end) ==
  IF obj.t \notin SliceTypes
  THEN Outcome(NilV, "cannot slice type")
  ELSE LET length   == Len(obj.v)
           startIdx == SliceStart(start)
           endIdx   == SliceEnd(end, length)
           lo       == IF startIdx > endIdx THEN endIdx ELSE startIdx
       IN IF lo < 0 \/ endIdx < lo \/ endIdx > length
          THEN Outcome(NilV, SliceOutOfBounds)
          ELSE Outcome([t |-> obj.t, v |-> SubSeq(obj.v, lo + 1, endIdx)], "")

\* ------------------------------------------------------------ Document accessors
\* Document.GetHeadings(levels...)
GetHeadings(d, levels) ==
  SelectSeq([i \in DOMAIN d.headings |-> i],
            LAMBDA i : levels = <<>> \/ \E k \in DOMAIN levels : levels[k] = d.headings[i].Level)

\* Document.GetSection(title)
GetSection(d, title) ==
  IF title \in DOMAIN d.sectionIndex
  THEN [section |-> d.sectionIndex[title], found |-> TRUE]
  ELSE [section |-> Nil, found |-> FALSE]

\* Document.GetSections()
GetSections(d) == [i \in DOMAIN d.sections |-> i]

\* Document.GetTableOfContents(): top-level sections only
GetTableOfContents(d) ==
  SelectSeq([i \in DOMAIN d.sections |-> i], LAMBDA i : d.sections[i].Parent = Nil)

\* Document.GetCodeBlocks(languages...)
GetCodeBlocks(d, langs) ==
  SelectSeq([i \in DOMAIN d.codeBlocks |-> i],
            LAMBDA i : langs = <<>> \/ \E k \in DOMAIN langs : langs[k] = d.codeBlocks[i].Language)

\* Document.GetLinks()
GetLinks(d) == [i \in DOMAIN d.links |-> i]

\* Document.countLines(): newline bytes of the source + 1
CountLines == TotalLines(walked, trailingNewline)

\* ------------------------------------------------------------ types.go
RECURSIVE ConcatAll(_)
ConcatAll(ss) == IF ss = <<>> THEN <<>> ELSE ss[1] \o ConcatAll(Tail(ss))

\* contains(slice, item)
ContainsAny(slice, item) == TRUE
Contains(slice, item) == \E k \in DOMAIN slice : slice[k] = item

\* Section.GetCodeBlocks(languages...): the section's own blocks, then those
\* of its children, recursively
RECURSIVE SectionGetCodeBlocks(_, _, _)
SectionGetCodeBlocks(d, sid, langs) ==
  LET own == SelectSeq(d.sections[sid].codeBlocks,
                       LAMBDA c : Len(langs) = 0 \/ Contains(langs, d.codeBlocks[c].Language))
      kids == d.sections[sid].Children
  IN own \o ConcatAll([k \in DOMAIN kids |-> SectionGetCodeBlocks(d, kids[k], langs)])

\* CodeBlock.GetLines(): the value returned
GetLinesValue(cb) == IF cb.Lines = 0 THEN cb.Newlines + 1 ELSE cb.Lines

\* CodeBlock.GetLines(): the receiver after the call
GetLinesReceiver(cb) == IF cb.Lines = 0 THEN [cb EXCEPT !.Lines = cb.Newlines + 1] ELSE cb

\* the Document after GetLines was called on the code blocks calls[1], calls[2], ...
RECURSIVE ApplyGetLines(_, _)
ApplyGetLines(d, calls) ==
  IF calls = <<>> THEN d
  ELSE ApplyGetLines([d EXCEPT !.codeBlocks[calls[1]] = GetLinesReceiver(@)], Tail(calls))

\* ------------------------------------------------------------ conversions and comparisons
\* byte order of the strings the model draws
StringOrder == <<"", "A", "B", "Missing", "compact", "full", "go", "plain", "preview", "u">>
StrRank(x) == CHOOSE i \in DOMAIN StringOrder : StringOrder[i] = x
StrLen(x) == CASE x = "" -> 0
               [] x \in {"A", "B", "u"} -> 1
               [] x = "go" -> 2
               [] x = "full" -> 4
               [] x = "plain" -> 5
               [] x \in {"Missing", "compact", "preview"} -> 7

NumTypes == {"int", "int64", "float64"}

\* toBool
ToBoolNonNil(x) == x.t # "nil"
ToBool(x) ==
  CASE x.t = "nil" -> FALSE
    [] x.t = "text" -> ~x.v[3]
    [] x.t = "bool" -> x.v
    [] x.t \in NumTypes -> x.v # 0
    [] x.t = "string" -> x.v # ""
    [] x.t \in SliceTypes -> Len(x.v) > 0
    [] OTHER -> TRUE

\* equals: numeric comparison when both are numbers, reflect.DeepEqual otherwise
Equals(a, b) ==
  IF a.t \in NumTypes /\ b.t \in NumTypes
  THEN a.v = b.v
  ELSE a.t = b.t /\ a.v = b.v

\* lessThan
LessThan(a, b) ==
  IF a.t \in NumTypes /\ b.t \in NumTypes THEN Outcome(BoolV(a.v < b.v), "")
  ELSE IF a.t = "string" /\ b.t = "string" THEN Outcome(BoolV(StrRank(a.v) < StrRank(b.v)), "")
  ELSE Outcome(BoolV(FALSE), "cannot compare")

\* lessEqual
LessEqual(a, b) ==
  LET lt == LessThan(a, b) IN
  IF lt.err # "" THEN lt ELSE Outcome(BoolV(lt.val.v \/ Equals(a, b)), "")

\* greaterThan
GreaterThan(a, b) ==
  LET le == LessEqual(a, b) IN
  IF le.err # "" THEN le ELSE Outcome(BoolV(~le.val.v), "")

\* greaterEqual
GreaterEqual(a, b) ==
  LET lt == LessThan(a, b) IN
  IF lt.err # "" THEN lt ELSE Outcome(BoolV(~lt.val.v), "")

\* negate
Negate(x) ==
  IF x.t \in NumTypes THEN Outcome([t |-> x.t, v |-> 0 - x.v], "")
  ELSE Outcome(NilV, "cannot negate")

\* getLength
GetLength(x) ==
  CASE x.t \in SliceTypes -> Len(x.v)
    [] x.t = "string" -> StrLen(x.v)
    [] x.t # "text" -> 0

\* extractIntArgs
ExtractIntArgs(args) ==
  LET nums == SelectSeq(args, LAMBDA a : a.t \in NumTypes) IN [k \in DOMAIN nums |-> nums[k].v]

\* extractStringArgs
ExtractStringArgs(args) ==
  LET strs == SelectSeq(args, LAMBDA a : a.t = "string") IN [k \in DOMAIN strs |-> strs[k].v]

\* the element type of a typed slice
ElemType(t) ==
  CASE t = "[]*Heading" -> "*Heading"
    [] t = "[]*Section" -> "*Section"
    [] t = "[]*CodeBlock" -> "*CodeBlock"
    [] t = "[]*Link" -> "*Link"

\* rv.Index(i).Interface(): element i (1-based here) of a slice value
ElemOf(coll, i) ==
  IF coll.t \in {"[]interface{}", "[]string"} THEN coll.v[i] ELSE [t |-> ElemType(coll.t), v |-> coll.v[i]]

\* getIndex
GetIndexFromEnd(obj, index) ==
  IF obj.t \in SliceTypes
  THEN IF index.t \notin {"int", "int64"} THEN Outcome(NilV, "array index must be integer")
       ELSE IF index.v < 0 /\ 0 - index.v <= Len(obj.v)
       THEN Outcome(ElemOf(obj, Len(obj.v) + index.v + 1), "")
       ELSE IF index.v < 0 \/ index.v >= Len(obj.v) THEN Outcome(NilV, "index out of range")
       ELSE Outcome(ElemOf(obj, index.v + 1), "")
  ELSE Outcome(NilV, "cannot index type")
GetIndex(obj, index) ==
  IF obj.t \in SliceTypes
  THEN IF index.t \notin {"int", "int64"} THEN Outcome(NilV, "array index must be integer")
       ELSE IF index.v < 0 \/ index.v >= Len(obj.v) THEN Outcome(NilV, "index out of range")
       ELSE Outcome(ElemOf(obj, index.v + 1), "")
  ELSE Outcome(NilV, "cannot index type")

\* ------------------------------------------------------------ property access
\* Section.GetText(): the source lines Start..End, which begin with the
\* heading's line and so are not empty
SectionText(sid) == TextV("Section", sid, FALSE)

\* CodeBlock.Content: the block's lines, each with its newline
CodeContent(d, c) == TextV("CodeBlock", c, d.codeBlocks[c].Newlines = 0)

\* what a property read returns: the value, the error, and the code blocks
\* GetLines() was called on
Prop(val, err, calls) == [val |-> val, err |-> err, calls |-> calls]

\* getProperty
GetProperty(d, obj, name) ==
  CASE obj.t = "*Heading" ->
         (CASE name = "level" -> Prop(IntV(d.headings[obj.v].Level), "", <<>>)
            [] name = "text" -> Prop(StrV(d.headings[obj.v].Text), "", <<>>)
            [] name = "id" -> Prop(StrV(d.headings[obj.v].ID), "", <<>>)
            [] OTHER -> Prop(NilV, "heading has no property", <<>>))
    [] obj.t = "*Section" ->
         (CASE name = "heading" -> Prop(HeadingV(d.sections[obj.v].Heading), "", <<>>)
            [] name = "text" -> Prop(SectionText(obj.v), "", <<>>)
            [] name = "start" -> Prop(IntV(d.sections[obj.v].Start), "", <<>>)
            [] name = "end" -> Prop(IntV(d.sections[obj.v].End), "", <<>>)
            [] OTHER -> Prop(NilV, "section has no property", <<>>))
    [] obj.t = "*CodeBlock" ->
         (CASE name = "language" -> Prop(StrV(d.codeBlocks[obj.v].Language), "", <<>>)
            [] name = "content" -> Prop(CodeContent(d, obj.v), "", <<>>)
            [] name = "lines" -> Prop(IntV(GetLinesValue(d.codeBlocks[obj.v])), "", <<obj.v>>)
            [] OTHER -> Prop(NilV, "code block has no property", <<>>))
    [] obj.t = "*Link" ->
         (CASE name = "text" -> Prop(StrV(d.links[obj.v].Text), "", <<>>)
            [] name = "url" -> Prop(StrV(d.links[obj.v].URL), "", <<>>)
            [] OTHER -> Prop(NilV, "link has no property", <<>>))
    [] OTHER -> Prop(NilV, "cannot access property", <<>>)

\* handlePropertyAccess: a property of the current item, or not handled
Handled(val, calls) == [val |-> val, handled |-> TRUE, calls |-> calls]
NotHandled == [val |-> NilV, handled |-> FALSE, calls |-> <<>>]

HandlePropertyAccess(d, cur, property) ==
  CASE cur.t = "*Heading" ->
         (CASE property = "text" -> Handled(StrV(d.headings[cur.v].Text), <<>>)
            [] property = "level" -> Handled(IntV(d.headings[cur.v].Level), <<>>)
            [] property = "id" -> Handled(StrV(d.headings[cur.v].ID), <<>>)
            [] OTHER -> NotHandled)
    [] cur.t = "*Section" ->
         (CASE property = "text" -> Handled(SectionText(cur.v), <<>>)
            [] property = "heading" -> Handled(HeadingV(d.sections[cur.v].Heading), <<>>)
            [] property = "children" -> Handled(SectionsV(d.sections[cur.v].Children), <<>>)
            [] property = "start" -> Handled(IntV(d.sections[cur.v].Start), <<>>)
            [] property = "end" -> Handled(IntV(d.sections[cur.v].End), <<>>)
            [] OTHER -> NotHandled)
    [] cur.t = "*CodeBlock" ->
         (CASE property \in {"content", "text"} -> Handled(CodeContent(d, cur.v), <<>>)
            [] property = "language" -> Handled(StrV(d.codeBlocks[cur.v].Language), <<>>)
            [] property = "lines" -> Handled(IntV(GetLinesValue(d.codeBlocks[cur.v])), <<cur.v>>)
            [] OTHER -> NotHandled)
    [] cur.t = "*Link" ->
         (CASE property = "text" -> Handled(StrV(d.links[cur.v].Text), <<>>)
            [] property = "url" -> Handled(StrV(d.links[cur.v].URL), <<>>)
            [] OTHER -> NotHandled)
    [] OTHER -> NotHandled

\* handleCollectionPropertyAccess
HandleCollectionPropertyAccess(d, cur, property) ==
  IF cur.t = "[]*Section" /\ property = "heading"
  THEN Handled(HeadingsV([k \in DOMAIN cur.v |-> d.sections[cur.v[k]].Heading]), <<>>)
  ELSE IF cur.t = "[]*Section" /\ property = "text"
  THEN Handled(TextsV([k \in DOMAIN cur.v |-> SectionText(cur.v[k])]), <<>>)
  ELSE NotHandled

\* ------------------------------------------------------------ tree builders
\* TreeMode
TreeModeDefault == ""
TreeModeCompact == "compact"
TreeModePreview == "preview"
TreeModeFull == "full"

\* the keys CountCodeByLanguage can produce, and the frontmatter keys drawn
LangKeys == (Langs \ {""}) \cup {"plain"}
MetaKeys == {"owner", "tags"}

\* the orders in which a range over a Go map can visit the keys
Perms(S) == {p \in [1..Cardinality(S) -> S] : \A i, j \in DOMAIN p : p[i] = p[j] => i = j}

\* the keys of a map in the order a range statement visits them
RangeOrder(keys, order) == SelectSeq(order, LAMBDA k : k \in keys)

\* CountCodeByLanguage: language -> number of blocks, "" counted as "plain"
LangKey(lang) == IF lang = "" THEN "plain" ELSE lang
CountCodeByLanguage(d, blocks) ==
  LET keys == {LangKey(d.codeBlocks[blocks[k]].Language) : k \in DOMAIN blocks}
  IN [key \in keys |-> Cardinality({k \in DOMAIN blocks : LangKey(d.codeBlocks[blocks[k]].Language) = key})]

\* fmt.Sprintf("%d block", count) / ("%d blocks", count)
CodeMeta(count) == IF count > 1 THEN <<count, "blocks">> ELSE <<count, "block">>

\* ExtractPreview(section.GetText(), 50): a function of the section's lines
Preview(sec, mode) ==
  IF mode = TreeModePreview \/ mode = TreeModeFull THEN <<"preview", sec.Start, sec.End>> ELSE <<>>

\* the "code" children appended to a section node, one per language, in map order
CodeNodes(d, blocks, order) ==
  LET counts == CountCodeByLanguage(d, blocks)
      keys   == RangeOrder(DOMAIN counts, order)
  IN [k \in DOMAIN keys |->
        [Type |-> "code", Text |-> keys[k], Preview |-> <<>>, Start |-> 0, End |-> 0,
         Level |-> 0, Meta |-> CodeMeta(counts[keys[k]]), Children |-> <<>>]]

SectionNode(d, sid, mode, children) ==
  [Type |-> "section", Text |-> d.headings[d.sections[sid].Heading].Text,
   Preview |-> Preview(d.sections[sid], mode),
   Start |-> d.sections[sid].Start, End |-> d.sections[sid].End,
   Level |-> d.headings[d.sections[sid].Heading].Level, Meta |-> <<>>, Children |-> children]

\* Document.buildSectionTree (lib/tree.go): code children count the section's own blocks
RECURSIVE DocBuildSectionTree(_, _, _, _)
DocBuildSectionTree(d, sid, mode, ord) ==
  LET kids == d.sections[sid].Children
      sub  == [k \in DOMAIN kids |-> DocBuildSectionTree(d, kids[k], mode, ord)]
      code == IF mode = TreeModeDefault /\ Len(d.sections[sid].codeBlocks) > 0
              THEN CodeNodes(d, d.sections[sid].codeBlocks, ord.code[sid]) ELSE <<>>
  IN SectionNode(d, sid, mode, sub \o code)

\* Document.BuildTree
BuildTree(d, mode, ord) ==
  LET toc == GetTableOfContents(d)
  IN [Path |-> "doc.md", Lines |-> CountLines, Mode |-> mode,
      Root |-> [k \in DOMAIN toc |-> DocBuildSectionTree(d, toc[k], mode, ord)],
      Metadata |-> IF d.metadata # {} THEN RangeOrder(d.metadata, ord.meta) ELSE <<>>]

\* buildSectionNode (mql/compiler.go): code children count section.GetCodeBlocks()
RECURSIVE BuildSectionNode(_, _, _, _)
BuildSectionNode(d, sid, mode, ord) ==
  LET kids   == d.sections[sid].Children
      sub    == [k \in DOMAIN kids |-> BuildSectionNode(d, kids[k], mode, ord)]
      blocks == SectionGetCodeBlocks(d, sid, <<>>)
      code   == IF mode = TreeModeDefault /\ Len(blocks) > 0
                THEN CodeNodes(d, blocks, ord.code[sid]) ELSE <<>>
  IN SectionNode(d, sid, mode, sub \o code)

\* buildSectionTree (mql/compiler.go)
BuildSectionTree(d, sid, mode, ord) ==
  [Path |-> d.headings[d.sections[sid].Heading].Text,
   Lines |-> d.sections[sid].End - d.sections[sid].Start + 1, Mode |-> mode,
   Root |-> <<BuildSectionNode(d, sid, mode, ord)>>, Metadata |-> <<>>]

\* the mode named by the first argument of .tree
TreeMode(args) ==
  IF Len(args) > 0 /\ args[1].t = "string" /\ args[1].v \in {"compact", "preview", "full"}
  THEN args[1].v ELSE TreeModeDefault

\* ------------------------------------------------------------ the visitor
\* what a Visit method leaves behind: the value and error it returns,
\* context.Current when it returns, and the code blocks GetLines() ran on
R(val, err, cur, calls) == [val |-> val, err |-> err, cur |-> cur, calls |-> calls]

\* a value of the program this model does not compute
UnmodelledV(what) == [t |-> "unmodelled", v |-> what]

\* extractText
ExtractText(d, obj) ==
  CASE obj.t = "*Heading" -> StrV(d.headings[obj.v].Text)
    [] obj.t = "*Section" -> SectionText(obj.v)
    [] obj.t = "*CodeBlock" -> CodeContent(d, obj.v)
    [] obj.t = "*Link" -> StrV(d.links[obj.v].Text)
    [] obj.t \in {"string", "text"} -> obj
    [] OTHER -> TextV("fmt", 0, FALSE)

\* extractTextFromAny
ExtractTextFromAny(d, obj) ==
  IF obj.t \in SliceTypes \ {"[]string"}
  THEN TextsV([k \in DOMAIN obj.v |-> ExtractText(d, ElemOf(obj, k))])
  ELSE ExtractText(d, obj)

\* the test of a filter loop: toBool(match)
FilterKeepsAll(match) == TRUE
FilterKeeps(match) == ToBool(match)

\* a method called on a nil QueryNode: the runtime panics
NilDereference == "panic: invalid memory address or nil pointer dereference"

RECURSIVE Eval(_, _, _, _)
RECURSIVE EvalArgs(_, _, _, _, _, _, _)
RECURSIVE FilterLoop(_, _, _, _, _, _, _, _)
RECURSIVE MapLoop(_, _, _, _, _, _, _, _)

\* the loop "for i, arg := range node.Args { val, err := arg.Accept(v) ... }"
EvalArgs(args, i, cur, d, ord, vals, calls) ==
  IF i > Len(args) THEN [vals |-> vals, err |-> "", cur |-> cur, calls |-> calls]
  ELSE LET r == Eval(args[i], cur, d, ord) IN
       IF r.err # "" THEN [vals |-> vals, err |-> r.err, cur |-> r.cur, calls |-> calls \o r.calls]
       ELSE EvalArgs(args, i + 1, r.cur, d, ord, Append(vals, r.val), calls \o r.calls)

\* filterHeadings, filterSections, filterCodeBlocks, filterLinks
FilterLoop(coll, i, predicate, d, ord, result, calls, oldCurrent) ==
  IF i > Len(coll.v) THEN R([t |-> coll.t, v |-> result], "", oldCurrent, calls)
  ELSE LET r == Eval(predicate, ElemOf(coll, i), d, ord) IN
       IF r.err # "" THEN R(NilV, r.err, r.cur, calls \o r.calls)
       ELSE FilterLoop(coll, i + 1, predicate, d, ord,
                       IF FilterKeeps(r.val) THEN Append(result, coll.v[i]) ELSE result,
                       calls \o r.calls, oldCurrent)

\* VisitFilter
VisitFilter(node, cur, d, ord) ==
  IF cur = NilV THEN R(NilV, "no data to filter", cur, <<>>)
  ELSE IF cur.t \in {"[]*Heading", "[]*Section", "[]*CodeBlock", "[]*Link"}
  THEN FilterLoop(cur, 1, node.predicate, d, ord, <<>>, <<>>, cur)
  ELSE R(NilV, "cannot filter type", cur, <<>>)

\* the loops of mapOperation
MapLoop(coll, i, transform, d, ord, mapped, calls, oldCurrent) ==
  IF i > Len(coll.v) THEN R(ListV(mapped), "", oldCurrent, calls)
  ELSE LET r == Eval(transform, ElemOf(coll, i), d, ord) IN
       IF r.err # "" THEN R(NilV, r.err, r.cur, calls \o r.calls)
       ELSE MapLoop(coll, i + 1, transform, d, ord, Append(mapped, r.val),
                    calls \o r.calls, oldCurrent)

\* mapOperation
MapOperation(transform, cur, d, ord) ==
  IF cur = NilV THEN R(NilV, "no data to map", cur, <<>>)
  ELSE IF cur.t \in {"[]*Heading", "[]*Section", "[]*CodeBlock", "[]*Link", "[]interface{}"}
  THEN MapLoop(cur, 1, transform, d, ord, <<>>, <<>>, cur)
  ELSE R(NilV, "map can only be applied to collections", cur, <<>>)

\* VisitPipe
VisitPipeUnchecked(node, cur, d, ord) ==
  LET l == Eval(node.left, cur, d, ord)
      r == Eval(node.right, l.val, d, ord)
  IN IF r.err # "" THEN R(NilV, r.err, r.cur, l.calls \o r.calls)
     ELSE R(r.val, "", l.cur, l.calls \o r.calls)
VisitPipe(node, cur, d, ord) ==
  LET l == Eval(node.left, cur, d, ord) IN
  IF l.err # "" THEN R(NilV, l.err, l.cur, l.calls)
  ELSE LET r == Eval(node.right, l.val, d, ord) IN
       IF r.err # "" THEN R(NilV, r.err, r.cur, l.calls \o r.calls)
       ELSE R(r.val, "", l.cur, l.calls \o r.calls)

\* the switch on node.Name of VisitSelector
DocSelector(node, args, cur, d, ord, calls) ==
  CASE node.name = "headings" -> R(HeadingsV(GetHeadings(d, ExtractIntArgs(args))), "", cur, calls)
    [] node.name = "section" ->
         IF Len(args) = 0 THEN R(NilV, ".section requires a title argument", cur, calls)
         ELSE IF args[1].t # "string" THEN R(NilV, ".section requires a string title", cur, calls)
         ELSE IF ~GetSection(d, args[1].v).found THEN R(NilV, "section not found", cur, calls)
         ELSE R(SectionV(GetSection(d, args[1].v).section), "", cur, calls)
    [] node.name = "sections" -> R(SectionsV(GetSections(d)), "", cur, calls)
    [] node.name = "code" -> R(CodeBlocksV(GetCodeBlocks(d, ExtractStringArgs(args))), "", cur, calls)
    [] node.name = "links" -> R(LinksV(GetLinks(d)), "", cur, calls)
    [] node.name \in {"images", "tables", "lists", "metadata", "owner", "tags", "priority"} ->
         R(UnmodelledV(node.name), "", cur, calls)
    [] node.name = "text" -> R(ExtractTextFromAny(d, cur), "", cur, calls)
    [] node.name = "length" -> R(IntV(GetLength(cur)), "", cur, calls)
    [] node.name \in {"select", "filter"} ->
         IF Len(node.args) = 0 THEN R(NilV, "requires a predicate", cur, calls)
         ELSE LET f == VisitFilter(FilterN(node.args[1]), cur, d, ord)
              IN R(f.val, f.err, f.cur, calls \o f.calls)
    [] node.name = "tree" ->
         IF cur.t = "*Section"
         THEN R(TreeV(BuildSectionTree(d, cur.v, TreeMode(args), ord)), "", cur, calls)
         ELSE R(TreeV(BuildTree(d, TreeMode(args), ord)), "", cur, calls)
    [] node.name = "search" ->
         IF Len(args) = 0 THEN R(NilV, ".search requires a query string", cur, calls)
         ELSE IF args[1].t # "string" THEN R(NilV, ".search requires a string query", cur, calls)
         ELSE R(UnmodelledV("search"), "", cur, calls)
    [] OTHER -> R(NilV, "unknown selector", cur, calls)

\* VisitSelector
VisitSelector(node, cur, d, ord) ==
  LET onItem == cur # NilV /\ cur # DocV
      prop   == HandlePropertyAccess(d, cur, node.name)
      coll   == HandleCollectionPropertyAccess(d, cur, node.name)
      a      == EvalArgs(node.args, 1, cur, d, ord, <<>>, <<>>)
  IN IF onItem /\ prop.handled THEN R(prop.val, "", cur, prop.calls)
     ELSE IF onItem /\ coll.handled THEN R(coll.val, "", cur, <<>>)
     ELSE IF a.err # "" THEN R(NilV, a.err, a.cur, a.calls)
     ELSE IF onItem /\ node.name = "code" /\ cur.t = "*Section"
     THEN R(CodeBlocksV(SectionGetCodeBlocks(d, cur.v, ExtractStringArgs(a.vals))), "", a.cur, a.calls)
     ELSE DocSelector(node, a.vals, a.cur, d, ord, a.calls)

\* VisitFunction
VisitFunction(node, cur, d, ord) ==
  LET a == EvalArgs(node.args, 1, cur, d, ord, <<>>, <<>>) IN
  IF a.err # "" THEN R(NilV, a.err, a.cur, a.calls)
  ELSE CASE node.name = "map" ->
              IF Len(node.args) # 1 THEN R(NilV, "map requires 1 argument", a.cur, a.calls)
              ELSE LET m == MapOperation(node.args[1], a.cur, d, ord)
                   IN R(m.val, m.err, m.cur, a.calls \o m.calls)
         [] node.name \in {"contains", "startswith", "endswith"} ->
              IF Len(a.vals) # 1 THEN R(NilV, "requires 1 argument", a.cur, a.calls)
              ELSE R(UnmodelledV(node.name), "", a.cur, a.calls)
         [] node.name = "length" -> R(IntV(GetLength(a.cur)), "", a.cur, a.calls)
         [] OTHER -> R(NilV, "unknown function", a.cur, a.calls)

\* the operators of VisitBinary
BinaryOp(op, left, right) ==
  CASE op = "==" -> Outcome(BoolV(Equals(left, right)), "")
    [] op = "!=" -> Outcome(BoolV(~Equals(left, right)), "")
    [] op = "<" -> LessThan(left, right)
    [] op = "<=" -> LessEqual(left, right)
    [] op = ">" -> GreaterThan(left, right)
    [] op = ">=" -> GreaterEqual(left, right)
    [] op = "and" -> Outcome(BoolV(ToBool(left) /\ ToBool(right)), "")
    [] op = "or" -> Outcome(BoolV(ToBool(left) \/ ToBool(right)), "")
    [] OTHER -> Outcome(NilV, "unknown operator")

\* VisitBinary
VisitBinary(node, cur, d, ord) ==
  LET l == Eval(node.left, cur, d, ord) IN
  IF l.err # "" THEN R(NilV, l.err, l.cur, l.calls)
  ELSE IF node.operator = "and" /\ ~ToBool(l.val) THEN R(BoolV(FALSE), "", l.cur, l.calls)
  ELSE IF node.operator = "or" /\ ToBool(l.val) THEN R(BoolV(TRUE), "", l.cur, l.calls)
  ELSE LET r == Eval(node.right, l.cur, d, ord) IN
       IF r.err # "" THEN R(NilV, r.err, r.cur, l.calls \o r.calls)
       ELSE LET o == BinaryOp(node.operator, l.val, r.val)
            IN R(IF o.err # "" THEN NilV ELSE o.val, o.err, r.cur, l.calls \o r.calls)

\* VisitUnary
VisitUnary(node, cur, d, ord) ==
  LET x == Eval(node.operand, cur, d, ord) IN
  IF x.err # "" THEN R(NilV, x.err, x.cur, x.calls)
  ELSE CASE node.operator = "!" -> R(BoolV(~ToBool(x.val)), "", x.cur, x.calls)
         [] node.operator = "-" -> R(Negate(x.val).val, Negate(x.val).err, x.cur, x.calls)
         [] OTHER -> R(NilV, "unknown unary operator", x.cur, x.calls)

\* VisitIdentifier; context.Variables is never written, so the lookup misses
VisitIdentifier(node, cur, d) ==
  LET p == GetProperty(d, cur, node.name) IN R(p.val, p.err, cur, p.calls)

\* VisitIndex
VisitIndex(node, cur, d, ord) ==
  LET obj == Eval(node.object, cur, d, ord) IN
  IF obj.err # "" THEN R(NilV, obj.err, obj.cur, obj.calls)
  ELSE LET index == Eval(node.index, obj.cur, d, ord) IN
       IF index.err # "" THEN R(NilV, index.err, index.cur, obj.calls \o index.calls)
       ELSE LET o == GetIndex(obj.val, index.val)
            IN R(o.val, o.err, index.cur, obj.calls \o index.calls)

\* VisitSlice
VisitSlice(node, cur, d, ord) ==
  LET obj == Eval(node.object, cur, d, ord) IN
  IF obj.err # "" THEN R(NilV, obj.err, obj.cur, obj.calls)
  ELSE LET start == IF node.start # NoNode THEN Eval(node.start, obj.cur, d, ord)
                    ELSE R(NilV, "", obj.cur, <<>>) IN
       IF start.err # "" THEN R(NilV, start.err, start.cur, obj.calls \o start.calls)
       ELSE LET end == IF node.end # NoNode THEN Eval(node.end, start.cur, d, ord)
                       ELSE R(NilV, "", start.cur, <<>>) IN
            IF end.err # "" THEN R(NilV, end.err, end.cur, obj.calls \o start.calls \o end.calls)
            ELSE LET o == GetSlice(obj.val, start.val, end.val)
                 IN R(o.val, o.err, end.cur, obj.calls \o start.calls \o end.calls)

\* node.Accept(visitor)
Eval(node, cur, d, ord) ==
  CASE node.kind = "Pipe" -> VisitPipe(node, cur, d, ord)
    [] node.kind = "Selector" -> VisitSelector(node, cur, d, ord)
    [] node.kind = "Filter" -> VisitFilter(node, cur, d, ord)
    [] node.kind = "Function" -> VisitFunction(node, cur, d, ord)
    [] node.kind = "Binary" -> VisitBinary(node, cur, d, ord)
    [] node.kind = "Unary" -> VisitUnary(node, cur, d, ord)
    [] node.kind = "Literal" -> R(node.value, "", cur, <<>>)
    [] node.kind = "Identifier" -> VisitIdentifier(node, cur, d)
    [] node.kind = "Index" -> VisitIndex(node, cur, d, ord)
    [] node.kind = "Slice" -> VisitSlice(node, cur, d, ord)
    [] node.kind = "None" -> R(NilV, NilDereference, cur, <<>>)

\* ------------------------------------------------------------ actions
NextLine == SumHeights(walked) + 1

VisitHeading ==
  /\ pc = "walk"
  /\ Len(walked) < MaxNodes
  /\ \E level \in Levels, text \in Texts \cup {""} :
       LET n == [kind |-> "heading", level |-> level, text |-> text,
                 hasLines |-> (text # ""), lang |-> "", lines |-> 0, line |-> NextLine]
           r == IndexHeading(doc, sectionStack, n)
       IN /\ walked' = Append(walked, n)
          /\ doc' = r.doc
          /\ sectionStack' = r.sectionStack
          /\ currentSection' = r.currentSection
  /\ UNCHANGED <<trailingNewline, pc, evalVars, fnVars>>

VisitFencedCodeBlock ==
  /\ pc = "walk"
  /\ Len(walked) < MaxNodes
  /\ \E lang \in Langs, lines \in {0, MaxCodeLines} :
       LET n == [kind |-> "code", level |-> 0, text |-> "",
                 hasLines |-> FALSE, lang |-> lang, lines |-> lines, line |-> NextLine]
       IN /\ walked' = Append(walked, n)
          /\ doc' = IndexCodeBlock(doc, currentSection, n)
  /\ UNCHANGED <<trailingNewline, sectionStack, currentSection, pc, evalVars, fnVars>>

VisitLink ==
  /\ pc = "walk"
  /\ Len(walked) < MaxNodes
  /\ \E text \in Texts :
       LET n == [kind |-> "link", level |-> 0, text |-> text,
                 hasLines |-> FALSE, lang |-> "", lines |-> 0, line |-> NextLine]
       IN /\ walked' = Append(walked, n)
          /\ doc' = IndexLink(doc, n)
  /\ UNCHANGED <<trailingNewline, sectionStack, currentSection, pc, evalVars, fnVars>>

VisitOther ==
  /\ pc = "walk"
  /\ Len(walked) < MaxNodes
  /\ walked' = Append(walked, [kind |-> "other", level |-> 0, text |-> "",
                               hasLines |-> FALSE, lang |-> "", lines |-> 0,
                               line |-> NextLine])
  /\ UNCHANGED <<trailingNewline, doc, sectionStack, currentSection, pc, evalVars, fnVars>>

Cleanup ==
  /\ pc = "walk"
  /\ doc' = FixEnds(doc, TotalLines(walked, trailingNewline))
  /\ pc' = "done"
  /\ UNCHANGED <<walked, trailingNewline, sectionStack, currentSection, evalVars, fnVars>>

\* no query is being evaluated
NoEval ==
  /\ query = NoNode
  /\ current = NilV
  /\ results = <<>>
  /\ tasks = <<>>

\* no helper function is under test
NoFn ==
  /\ fnArgs = <<>>
  /\ fnOut = NotRun

Init ==
  /\ walked = <<>>
  /\ trailingNewline \in BOOLEAN
  /\ doc = EmptyDoc
  /\ sectionStack = <<>>
  /\ currentSection = Nil
  /\ pc = "walk"
  /\ NoEval
  /\ NoFn

Next == VisitHeading \/ VisitFencedCodeBlock \/ VisitLink \/ VisitOther \/ Cleanup

Spec == Init /\ [][Next]_vars

\* ------------------------------------------------------------ getSlice on its own
\* a finished, empty Document: the helper under test reads none of it
NoDoc ==
  /\ walked = <<>>
  /\ trailingNewline = FALSE
  /\ doc = EmptyDoc
  /\ sectionStack = <<>>
  /\ currentSection = Nil
  /\ pc = "done"

\* the sequence <<1, ..., n>> as a []interface{}
Iota(n) == ListV([i \in 1..n |-> IntV(i)])
SliceBounds == {NilV} \cup {Int64V(i) : i \in (0 - MaxSliceIdx)..MaxSliceIdx}

InitSlice ==
  /\ NoDoc
  /\ NoEval
  /\ fnArgs \in {<<Iota(n), start, end>> : n \in 0..MaxSliceLen, start \in SliceBounds, end \in SliceBounds}
  /\ fnOut = NotRun

ApplyGetSlice ==
  /\ fnOut = NotRun
  /\ fnOut' = GetSlice(fnArgs[1], fnArgs[2], fnArgs[3])
  /\ UNCHANGED <<walked, trailingNewline, doc, sectionStack, currentSection, pc, evalVars, fnArgs>>

NextSlice == ApplyGetSlice

SpecSlice == InitSlice /\ [][NextSlice]_vars

\* a bound clamped into [0, n]
Clamp(i, n) == IF i < 0 THEN 0 ELSE IF i > n THEN n ELSE i

\* C9: slicing a sequence of length n with any integer or absent bounds returns
\* no error and does not fault; the result is the elements from the clamped
\* start up to the clamped end, empty when the clamped start exceeds the clamped end
C9_SliceClamps ==
  fnOut # NotRun =>
    LET xs == fnArgs[1].v
        n  == Len(xs)
        lo == IF fnArgs[2] = NilV THEN 0 ELSE Clamp(fnArgs[2].v, n)
        hi == IF fnArgs[3] = NilV THEN n ELSE Clamp(fnArgs[3].v, n)
    IN /\ fnOut.err = ""
       /\ fnOut.val = ListV(IF lo > hi THEN <<>> ELSE SubSeq(xs, lo + 1, hi))

\* ------------------------------------------------------------ the input seen by the claims
\* the heading nodes of the walk, in document order; heading k becomes
\* doc.headings[k] and doc.sections[k]
HeadingNodes == SelectSeq(walked, LAMBDA n : n.kind = "heading")
NumHeadings == Len(HeadingNodes)
InLevel(k) == HeadingNodes[k].level
InLine(k) == HeadingNodes[k].line
Indexed == pc = "done"
SetMin(S) == CHOOSE x \in S : \A y \in S : x <= y
SetMax(S) == CHOOSE x \in S : \A y \in S : x >= y

\* headings after k at the same or a shallower level
Closers(k) == {j \in (k + 1)..NumHeadings : InLevel(j) <= InLevel(k)}
\* index of the heading that ends section k, NumHeadings + 1 when none does
ScopeEnd(k) == IF Closers(k) = {} THEN NumHeadings + 1 ELSE SetMin(Closers(k))
\* headings strictly inside section k
Inside(k) == (k + 1)..(ScopeEnd(k) - 1)
SeqToSet(s) == {s[i] : i \in DOMAIN s}

\* C1: after indexing, every section has 0 <= Start <= End
C1_StartLeEnd ==
  Indexed => \A i \in DOMAIN doc.sections :
               /\ doc.sections[i].Start >= 0
               /\ doc.sections[i].End >= 0
               /\ doc.sections[i].Start <= doc.sections[i].End

\* a finished index with a skipped level, a duplicate text and a section closed
\* by a later heading
C1_Witness ==
  /\ Indexed
  /\ \E i, j \in DOMAIN doc.sections :
       /\ i < j
       /\ doc.sections[j].Parent = i
       /\ InLevel(j) >= InLevel(i) + 2
  /\ \E i, j \in DOMAIN doc.headings :
       i < j /\ doc.headings[i].Text = doc.headings[j].Text
  /\ \E i \in DOMAIN doc.sections : Closers(i) # {}

\* C2: after indexing, every section ends one line before the next heading at
\* the same or a shallower level, or at the document's last line when no such
\* heading follows
C2_EndBeforeNextHeading ==
  Indexed => \A i \in DOMAIN doc.sections :
               doc.sections[i].End =
                 IF Closers(i) = {}
                 THEN TotalLines(walked, trailingNewline)
                 ELSE InLine(ScopeEnd(i)) - 1

\* C3 as stated: the children of a section are the headings inside it whose
\* level is the smallest level found inside it
C3_ChildrenAtMinimalLevel ==
  Indexed => \A i \in DOMAIN doc.sections :
               SeqToSet(doc.sections[i].Children) =
                 {j \in Inside(i) : \A m \in Inside(i) : InLevel(j) <= InLevel(m)}

\* C3 amended: the children of a section are the headings inside it whose level
\* is the smallest level found from the section's heading up to that heading
C3_ChildrenAtRunningMinimalLevel ==
  Indexed => \A i \in DOMAIN doc.sections :
               SeqToSet(doc.sections[i].Children) =
                 {j \in Inside(i) : \A m \in (i + 1)..j : InLevel(j) <= InLevel(m)}

\* a section whose first inner heading is deeper than a later inner heading:
\* both are its children
C3_Witness ==
  /\ Indexed
  /\ \E i \in DOMAIN doc.sections : \E j, m \in Inside(i) :
       /\ j < m
       /\ InLevel(j) > InLevel(m)
       /\ doc.sections[i].Children = <<j, m>>

\* headings before k at a strictly smaller level
Shallower(k) == {j \in 1..(k - 1) : InLevel(j) < InLevel(k)}

\* C4: the parent of a section is the nearest preceding heading at a strictly
\* smaller level, none when there is no such heading; a section occurs exactly
\* once in its parent's children, which are in document order
C4_ParentIsNearestShallower ==
  Indexed => \A i \in DOMAIN doc.sections :
     LET p == doc.sections[i].Parent IN
       /\ p = (IF Shallower(i) = {} THEN Nil ELSE SetMax(Shallower(i)))
       /\ p # Nil => Cardinality({x \in DOMAIN doc.sections[p].Children :
                                    doc.sections[p].Children[x] = i}) = 1
       /\ \A x, y \in DOMAIN doc.sections[i].Children :
            x < y => doc.sections[i].Children[x] < doc.sections[i].Children[y]

\* the document  # A / ## B / # C : two top-level sections, the second heading
\* the only child of the first
C4_Witness ==
  /\ Indexed
  /\ NumHeadings = 3
  /\ <<InLevel(1), InLevel(2), InLevel(3)>> = <<1, 2, 1>>
  /\ {i \in DOMAIN doc.sections : doc.sections[i].Parent = Nil} = {1, 3}
  /\ doc.sections[1].Children = <<2>>
  /\ doc.sections[2].Parent = 1
  /\ doc.sections[1].Start = 1

\* ------------------------------------------------------------ queries on a parsed Document
\* the walk of buildIndexes over the nodes ns[i..]
RECURSIVE Walk(_, _, _, _, _)
Walk(ns, i, d, stack, cur) ==
  IF i > Len(ns) THEN d
  ELSE IF ns[i].kind = "heading"
       THEN LET r == IndexHeading(d, stack, ns[i])
            IN Walk(ns, i + 1, r.doc, r.sectionStack, r.currentSection)
  ELSE IF ns[i].kind = "code" THEN Walk(ns, i + 1, IndexCodeBlock(d, cur, ns[i]), stack, cur)
  ELSE IF ns[i].kind = "link" THEN Walk(ns, i + 1, IndexLink(d, ns[i]), stack, cur)
  ELSE Walk(ns, i + 1, d, stack, cur)

\* Parser.Parse: frontmatter keys, then buildIndexes
Parse(ns, nl, keys) ==
  FixEnds(Walk(ns, 1, [EmptyDoc EXCEPT !.metadata = keys], <<>>, Nil), TotalLines(ns, nl))

\* the nodes with the source line each starts on
WithLines(ns) == [i \in DOMAIN ns |-> [ns[i] EXCEPT !.line = SumHeights(SubSeq(ns, 1, i - 1)) + 1]]

\* a frontmatter block "---", one line per key, "---"
Frontmatter(keys) ==
  [kind |-> "frontmatter", level |-> 0, text |-> "", hasLines |-> FALSE, lang |-> "",
   lines |-> Cardinality(keys), line |-> 1]

\* the nodes the queried documents are made of
QueryNodes ==
  {[kind |-> "heading", level |-> level, text |-> text, hasLines |-> TRUE, lang |-> "",
    lines |-> 0, line |-> 0] : level \in 1..2, text \in Texts}
  \cup {[kind |-> "code", level |-> 0, text |-> "", hasLines |-> FALSE, lang |-> c[1],
         lines |-> c[2], line |-> 0] : c \in {<<"", 0>>, <<"go", MaxCodeLines>>}}

QueryDocs ==
  LET bodies == UNION {[1..k -> QueryNodes] : k \in 0..MaxNodes}
  IN {WithLines(b) : b \in bodies} \cup {WithLines(<<Frontmatter(MetaKeys)>> \o b) : b \in bodies}

FrontmatterKeys(ns) == IF ns # <<>> /\ ns[1].kind = "frontmatter" THEN MetaKeys ELSE {}

\* the compiled queries run against them: .headings, .section("t"),
\* .code | filter(.lines > 0), .tree, .tree("compact"), .section("A") | .tree
QHeadings == SelectorN("headings", <<>>)
QSection(t) == SelectorN("section", <<LiteralN(StrV(t))>>)
QCodeWithLines ==
  PipeN(SelectorN("code", <<>>),
        FilterN(BinaryN(">", IdentifierN("lines"), LiteralN(Int64V(0)))))
QTree(mode) == SelectorN("tree", IF mode = TreeModeDefault THEN <<>> ELSE <<LiteralN(StrV(mode))>>)
QSectionTree(t) == PipeN(QSection(t), QTree(TreeModeDefault))

Queries ==
  {QHeadings, QCodeWithLines, QTree(TreeModeDefault), QTree(TreeModeCompact), QSectionTree("A")}
  \cup {QSection(t) : t \in Texts}

\* whether evaluating the node ranges over a Go map
RECURSIVE RangesOverMap(_)
RangesOverMap(node) ==
  CASE node.kind = "Pipe" -> RangesOverMap(node.left) \/ RangesOverMap(node.right)
    [] node.kind = "Selector" ->
         node.name = "tree" \/ \E k \in DOMAIN node.args : RangesOverMap(node.args[k])
    [] node.kind = "Filter" -> RangesOverMap(node.predicate)
    [] node.kind = "Function" -> \E k \in DOMAIN node.args : RangesOverMap(node.args[k])
    [] node.kind = "Binary" -> RangesOverMap(node.left) \/ RangesOverMap(node.right)
    [] node.kind = "Unary" -> RangesOverMap(node.operand)
    [] node.kind = "Index" -> RangesOverMap(node.object) \/ RangesOverMap(node.index)
    [] node.kind = "Slice" -> RangesOverMap(node.object)
    [] OTHER -> FALSE

\* the iteration orders the runtime may pick for the maps one evaluation ranges
\* over: one per section's language counts and one for the frontmatter; a map
\* with fewer than two keys has one order
SomeOrder(S) == CHOOSE p \in Perms(S) : TRUE
OrdersOf(S, keys) == IF Cardinality(keys) >= 2 THEN Perms(S) ELSE {SomeOrder(S)}
MapOrders(d, node) ==
  IF RangesOverMap(node)
  THEN {[code |-> c, meta |-> m] :
          c \in {f \in [DOMAIN d.sections -> Perms(LangKeys)] :
                   \A i \in DOMAIN d.sections :
                     f[i] \in OrdersOf(LangKeys,
                                       DOMAIN CountCodeByLanguage(d, SectionGetCodeBlocks(d, i, <<>>)))},
          m \in OrdersOf(MetaKeys, d.metadata)}
  ELSE {[code |-> [i \in DOMAIN d.sections |-> SomeOrder(LangKeys)], meta |-> SomeOrder(MetaKeys)]}

InitQuery ==
  /\ walked \in QueryDocs
  /\ trailingNewline = TRUE
  /\ doc = Parse(walked, trailingNewline, FrontmatterKeys(walked))
  /\ sectionStack = <<>>
  /\ currentSection = Nil
  /\ pc = "done"
  /\ query \in Queries
  /\ current = NilV
  /\ results = <<>>
  /\ tasks = <<>>
  /\ NoFn

\* plan(NewEvalContext(doc)): one evaluation of the compiled query
Execute ==
  /\ pc = "done"
  /\ Len(results) < MaxRuns
  /\ \E ord \in MapOrders(doc, query) :
       LET r == Eval(query, DocV, doc, ord)
       IN /\ results' = Append(results, Outcome(r.val, r.err))
          /\ current' = r.cur
          /\ doc' = ApplyGetLines(doc, r.calls)
  /\ UNCHANGED <<walked, trailingNewline, sectionStack, currentSection, pc, query, tasks, fnVars>>

NextQuery == Execute

SpecQuery == InitQuery /\ [][NextQuery]_vars

\* C5: executing a query leaves every field of the Document and of the
\* entities it owns unchanged
C5_QueriesLeaveDocumentUnchanged == [][pc = "done" => doc' = doc]_vars

\* C6: two evaluations of the same compiled query against the same Document
\* return identical results, including the order of tree children and of the
\* metadata field names
C6_SameQuerySameResult ==
  \A i, j \in DOMAIN results : results[i] = results[j]

\* C10: .section(t) succeeds iff some heading's text is t, and then returns
\* the section of the last such heading; otherwise it fails with
\* section-not-found
SectionTitle == query.args[1].value.v
TitledHeadings == {k \in 1..NumHeadings : HeadingNodes[k].text = SectionTitle}
C10_SectionByTitle ==
  (query.kind = "Selector" /\ query.name = "section") =>
    \A i \in DOMAIN results :
      IF TitledHeadings # {}
      THEN results[i] = Outcome(SectionV(SetMax(TitledHeadings)), "")
      ELSE results[i] = Outcome(NilV, "section not found")

C10_Witness ==
  /\ query.kind = "Selector" /\ query.name = "section"
  /\ Cardinality(TitledHeadings) >= 2
  /\ Len(results) >= 1
  /\ results[1] = Outcome(SectionV(SetMax(TitledHeadings)), "")

\* ------------------------------------------------------------ concurrent queries
\* goroutines that each run one compiled query on the shared Document
TaskIds == {"t1", "t2"}

CodeNodes2 ==
  {[kind |-> "code", level |-> 0, text |-> "", hasLines |-> FALSE, lang |-> c[1],
    lines |-> c[2], line |-> 0] : c \in {<<"", 0>>, <<"go", MaxCodeLines>>}}
ConcDocs == {WithLines(b) : b \in UNION {[1..k -> CodeNodes2] : k \in 0..MaxNodes}}
ConcQueries == {QCodeWithLines, QHeadings}

\* a task: its query, where it stands, the GetLines() calls it still has to
\* make, the value of c.Lines it last loaded, what GetLines() returned to it,
\* and the outcome of its evaluation
NewTask(q) ==
  [query |-> q, pc |-> "start", calls |-> <<>>, seen |-> 0, returned |-> <<>>, out |-> NotRun]

InitConc ==
  /\ walked \in ConcDocs
  /\ trailingNewline = TRUE
  /\ doc = Parse(walked, trailingNewline, {})
  /\ sectionStack = <<>>
  /\ currentSection = Nil
  /\ pc = "done"
  /\ query = NoNode
  /\ current = NilV
  /\ results = <<>>
  /\ tasks \in {[t \in TaskIds |-> NewTask(q[t])] : q \in [TaskIds -> ConcQueries]}
  /\ NoFn

ConcFrame == UNCHANGED <<walked, trailingNewline, sectionStack, currentSection, pc, query,
                         current, results, fnVars>>

\* the task evaluates its query; every field it reads but CodeBlock.Lines is
\* written by no one, and its GetLines() calls are then taken one access at a time
StartTask(t) ==
  /\ tasks[t].pc = "start"
  /\ LET r == Eval(tasks[t].query, DocV, doc, SomeOrder(LangKeys))
     IN tasks' = [tasks EXCEPT ![t].calls = r.calls,
                               ![t].out = Outcome(r.val, r.err),
                               ![t].pc = IF r.calls = <<>> THEN "done" ELSE "load"]
  /\ UNCHANGED doc
  /\ ConcFrame

\* GetLines: "if c.Lines == 0"
LoadLines(t) ==
  /\ tasks[t].pc = "load"
  /\ LET lines == doc.codeBlocks[tasks[t].calls[1]].Lines
     IN tasks' = [tasks EXCEPT ![t].seen = lines,
                               ![t].pc = IF lines = 0 THEN "store" ELSE "return"]
  /\ UNCHANGED doc
  /\ ConcFrame

\* GetLines: "c.Lines = strings.Count(c.Content, "\n") + 1"
StoreLines(t) ==
  /\ tasks[t].pc = "store"
  /\ LET c == tasks[t].calls[1]
     IN doc' = [doc EXCEPT !.codeBlocks[c].Lines = doc.codeBlocks[c].Newlines + 1]
  /\ tasks' = [tasks EXCEPT ![t].pc = "return"]
  /\ ConcFrame

\* GetLines: "return c.Lines"
ReturnLines(t) ==
  /\ tasks[t].pc = "return"
  /\ tasks' = [tasks EXCEPT ![t].returned = Append(@, doc.codeBlocks[tasks[t].calls[1]].Lines),
                            ![t].calls = Tail(@),
                            ![t].pc = IF Len(tasks[t].calls) = 1 THEN "done" ELSE "load"]
  /\ UNCHANGED doc
  /\ ConcFrame

NextConc == \E t \in TaskIds : StartTask(t) \/ LoadLines(t) \/ StoreLines(t) \/ ReturnLines(t)

SpecConc == InitConc /\ [][NextConc]_vars

\* the code block a task is about to access, Nil when it is not inside GetLines
Accessing(t) == IF tasks[t].pc \in {"load", "store", "return"} THEN tasks[t].calls[1] ELSE Nil

\* two tasks are about to access the same CodeBlock.Lines and one access is a write
DataRace ==
  \E a, b \in TaskIds :
    /\ a # b
    /\ tasks[a].pc = "store"
    /\ Accessing(b) = Accessing(a)

\* what the task's query returns when it runs alone on the parsed Document
AloneOutcome(t) ==
  LET r == Eval(tasks[t].query, DocV, Parse(walked, trailingNewline, {}), SomeOrder(LangKeys))
  IN Outcome(r.val, r.err)

\* C7: queries evaluated concurrently on one Document write nothing reachable
\* from it, so no two of them race, and each returns what it returns alone
C7_ConcurrentQueriesDoNotRace ==
  /\ \A t \in TaskIds : tasks[t].pc # "store"
  /\ ~DataRace
  /\ \A t \in TaskIds : tasks[t].pc = "done" => tasks[t].out = AloneOutcome(t)

\* ------------------------------------------------------------ VisitFilter on its own
FilterNodes ==
  QueryNodes \cup {[kind |-> "link", level |-> 0, text |-> text, hasLines |-> FALSE,
                    lang |-> "", lines |-> 0, line |-> 0] : text \in Texts}
FilterDocs == {WithLines(b) : b \in UNION {[1..k -> FilterNodes] : k \in 0..MaxNodes}}

\* the collections a selector hands to filter
Collections(d) ==
  {HeadingsV(GetHeadings(d, <<>>)), SectionsV(GetSections(d)),
   CodeBlocksV(GetCodeBlocks(d, <<>>)), LinksV(GetLinks(d))}

\* predicates as the parser builds them, .level == 2, .text == "A", .lines > 1,
\* .language == "go", .start > 1, .url, .heading, and two built from nodes the
\* parser does not produce here: the selector .children and not .language
Predicates ==
  {BinaryN("==", IdentifierN("level"), LiteralN(Int64V(2))),
   BinaryN("==", IdentifierN("text"), LiteralN(StrV("A"))),
   BinaryN(">", IdentifierN("lines"), LiteralN(Int64V(1))),
   BinaryN("==", IdentifierN("language"), LiteralN(StrV("go"))),
   BinaryN(">", IdentifierN("start"), LiteralN(Int64V(1))),
   IdentifierN("url"),
   IdentifierN("heading"),
   SelectorN("children", <<>>),
   UnaryN("!", IdentifierN("language"))}

InitFilter ==
  /\ walked \in FilterDocs
  /\ trailingNewline = TRUE
  /\ doc = Parse(walked, trailingNewline, {})
  /\ sectionStack = <<>>
  /\ currentSection = Nil
  /\ pc = "done"
  /\ query \in {FilterN(p) : p \in Predicates}
  /\ current \in Collections(doc)
  /\ results = <<>>
  /\ tasks = <<>>
  /\ fnArgs = <<current>>
  /\ fnOut = NotRun

\* VisitFilter with context.Current holding the collection
ApplyFilter ==
  /\ fnOut = NotRun
  /\ LET r == VisitFilter(query, current, doc, SomeOrder(LangKeys))
     IN /\ fnOut' = Outcome(r.val, r.err)
        /\ current' = r.cur
        /\ doc' = ApplyGetLines(doc, r.calls)
  /\ UNCHANGED <<walked, trailingNewline, sectionStack, currentSection, pc, query, results,
                 tasks, fnArgs>>

NextFilter == ApplyFilter

SpecFilter == InitFilter /\ [][NextFilter]_vars

\* the collection filtered and, per element, what the predicate evaluates to
Filtered == fnArgs[1]
PredicateOn(k) == Eval(query.predicate, ElemOf(Filtered, k), doc, SomeOrder(LangKeys))
PredicateTotal == \A k \in DOMAIN Filtered.v : PredicateOn(k).err = ""
Truthy == {k \in DOMAIN Filtered.v : ToBool(PredicateOn(k).val)}

\* C8: when the predicate evaluates without error on every element, filter
\* returns the elements on which it is truthy, in the collection's order, and
\* so never more elements than the collection has
C8_FilterKeepsTruthyInOrder ==
  (fnOut # NotRun /\ PredicateTotal) =>
    /\ fnOut.err = ""
    /\ fnOut.val.t = Filtered.t
    /\ fnOut.val.v = SelectSeq(Filtered.v, LAMBDA x : \E k \in Truthy : Filtered.v[k] = x)
    /\ Len(fnOut.val.v) = Cardinality(Truthy)
    /\ Len(fnOut.val.v) <= Len(Filtered.v)

C8_Witness ==
  /\ fnOut # NotRun
  /\ PredicateTotal
  /\ Len(Filtered.v) = 3
  /\ Truthy = {1, 3}
  /\ fnOut.val.v = <<Filtered.v[1], Filtered.v[3]>>

\* ------------------------------------------------------------ the MQL parser
\* tokens: the type and the text of each; a stream is a sequence of them
Tok(type, value) == [type |-> type, value |-> value]
EOFToken == Tok("EOF", "")

\* what a parse method returns, and Parser.pos (1-based here) when it returns
PR(node, err, pos) == [node |-> node, err |-> err, pos |-> pos]

\* Parser.current
ParserCurrent(ts, pos) == IF pos > Len(ts) THEN EOFToken ELSE ts[pos]

\* Parser.peek
ParserPeek(ts, pos) == IF pos + 1 > Len(ts) THEN EOFToken ELSE ts[pos + 1]

\* Parser.advance
ParserAdvance(ts, pos) == IF pos <= Len(ts) THEN pos + 1 ELSE pos

\* Parser.expect
ParserExpect(ts, pos, typ) ==
  IF ParserCurrent(ts, pos).type # typ
  THEN [err |-> "parse error: expected token", pos |-> pos]
  ELSE [err |-> "", pos |-> ParserAdvance(ts, pos)]

\* strconv.ParseInt and strconv.ParseFloat on the number texts drawn
IntTexts == [x \in {"0", "1", "2", "3", "5", "-1"} |->
               CASE x = "0" -> 0 [] x = "1" -> 1 [] x = "2" -> 2 [] x = "3" -> 3
                 [] x = "5" -> 5 [] x = "-1" -> 0 - 1]
FloatTexts == [x \in {"0.0", "2.0"} |-> IF x = "0.0" THEN 0 ELSE 2]
Float64V(x) == [t |-> "float64", v |-> x]

\* Parser.parseNumber
ParseNumber(text) ==
  IF text \in DOMAIN IntTexts THEN Outcome(Int64V(IntTexts[text]), "")
  ELSE IF text \in DOMAIN FloatTexts THEN Outcome(Float64V(FloatTexts[text]), "")
  ELSE Outcome(NilV, "invalid number")

\* the errors made by errorWithHint, which carry a usage line
PredicateUsageError == "parse error: requires a predicate argument; Usage: filter(.property == value)"
MapUsageError == "parse error: map requires a transformation argument; Usage: .collection | map(.property)"
UsageErrors == {PredicateUsageError, MapUsageError}

ComparisonTokens == {"Equals", "NotEquals", "LessThan", "LessEqual", "GreaterThan", "GreaterEqual"}

RECURSIVE ParseRule(_, _, _, _)


\* parseExpression: "for p.current().Type == TokenPipe"
PipeLoop(ts, pos, left) ==
  IF ParserCurrent(ts, pos).type # "Pipe" THEN PR(left, "", pos)
  ELSE LET right == ParseRule("ParsePrimary", ts, ParserAdvance(ts, pos), NoNode) IN
       IF right.err # "" THEN PR(NoNode, right.err, right.pos)
       ELSE ParseRule("PipeLoop", ts, right.pos, PipeN(left, right.node))

\* parseExpression
ParseExpression(ts, pos) ==
  LET left == ParseRule("ParsePrimary", ts, pos, NoNode) IN
  IF left.err # "" THEN PR(NoNode, left.err, left.pos)
  ELSE ParseRule("PipeLoop", ts, left.pos, left.node)

\* parsePrimary
ParsePrimary(ts, pos) ==
  LET token == ParserCurrent(ts, pos) IN
  CASE token.type = "Dot" -> ParseRule("ParseSelector", ts, pos, NoNode)
    [] token.type = "Identifier" ->
         IF ParserPeek(ts, pos).type = "LParen" THEN ParseRule("ParseFunction", ts, pos, NoNode)
         ELSE PR(IdentifierN(token.value), "", ParserAdvance(ts, pos))
    [] token.type = "LParen" ->
         LET expr == ParseRule("ParseExpression", ts, ParserAdvance(ts, pos), NoNode) IN
         IF expr.err # "" THEN PR(NoNode, expr.err, expr.pos)
         ELSE LET e == ParserExpect(ts, expr.pos, "RParen") IN
              IF e.err # "" THEN PR(NoNode, e.err, e.pos) ELSE PR(expr.node, "", e.pos)
    [] token.type = "String" -> PR(LiteralN(StrV(token.value)), "", ParserAdvance(ts, pos))
    [] token.type = "Number" ->
         LET num == ParseNumber(token.value) IN
         IF num.err # "" THEN PR(NoNode, num.err, ParserAdvance(ts, pos))
         ELSE PR(LiteralN(num.val), "", ParserAdvance(ts, pos))
    [] OTHER -> PR(NoNode, "parse error: unexpected token in primary expression", pos)

\* the arguments and the error of parseArguments
AR(args, err, pos) == [args |-> args, err |-> err, pos |-> pos]

\* parseSelector
ParseSelector(ts, pos) ==
  LET dot == ParserExpect(ts, pos, "Dot") IN
  IF dot.err # "" THEN PR(NoNode, dot.err, dot.pos)
  ELSE IF ParserCurrent(ts, dot.pos).type # "Identifier"
  THEN PR(NoNode, "parse error: expected identifier after '.'", dot.pos)
  ELSE LET name  == ParserCurrent(ts, dot.pos).value
           after == ParserAdvance(ts, dot.pos)
           a     == IF ParserCurrent(ts, after).type = "LParen"
                    THEN ParseRule("ParseArguments", ts, after, NoNode)
                    ELSE AR(<<>>, "", after)
       IN IF a.err # "" THEN PR(NoNode, a.err, a.pos)
          ELSE CASE name \in {"select", "filter"} ->
                      IF Len(a.args) = 0 THEN PR(NoNode, PredicateUsageError, a.pos)
                      ELSE PR(FilterN(a.args[1]), "", a.pos)
                 [] name = "map" ->
                      IF Len(a.args) = 0 THEN PR(NoNode, MapUsageError, a.pos)
                      ELSE PR(FunctionN("map", a.args), "", a.pos)
                 [] OTHER -> PR(SelectorN(name, a.args), "", a.pos)

\* parseFunction
ParseFunction(ts, pos) ==
  IF ParserCurrent(ts, pos).type # "Identifier"
  THEN PR(NoNode, "parse error: expected function name", pos)
  ELSE LET name == ParserCurrent(ts, pos).value
           a    == ParseRule("ParseArguments", ts, ParserAdvance(ts, pos), NoNode)
       IN IF a.err # "" THEN PR(NoNode, a.err, a.pos)
          ELSE IF name \in {"select", "filter"}
          THEN (IF Len(a.args) = 0 THEN PR(NoNode, PredicateUsageError, a.pos)
                ELSE PR(FilterN(a.args[1]), "", a.pos))
          ELSE PR(FunctionN(name, a.args), "", a.pos)

\* parseArguments: the loop over the arguments
ArgumentLoop(ts, pos, args) ==
  LET arg == ParseRule("ParseComparison", ts, pos, NoNode) IN
  IF arg.err # "" THEN AR(<<>>, arg.err, arg.pos)
  ELSE IF ParserCurrent(ts, arg.pos).type = "Comma"
  THEN ParseRule("ArgumentLoop", ts, ParserAdvance(ts, arg.pos), Append(args, arg.node))
  ELSE IF ParserCurrent(ts, arg.pos).type = "RParen"
  THEN AR(Append(args, arg.node), "", ParserAdvance(ts, arg.pos))
  ELSE AR(<<>>, "parse error: expected ',' or ')' in argument list", arg.pos)

\* parseArguments
ParseArguments(ts, pos) ==
  LET open == ParserExpect(ts, pos, "LParen") IN
  IF open.err # "" THEN AR(<<>>, open.err, open.pos)
  ELSE IF ParserCurrent(ts, open.pos).type = "RParen"
  THEN AR(<<>>, "", ParserAdvance(ts, open.pos))
  ELSE ParseRule("ArgumentLoop", ts, open.pos, <<>>)

\* parseComparison (parseArgument calls it)
ParseComparison(ts, pos) ==
  LET left == ParseRule("ParseLogical", ts, pos, NoNode) IN
  IF left.err # "" THEN PR(NoNode, left.err, left.pos)
  ELSE LET token == ParserCurrent(ts, left.pos) IN
       IF token.type \in ComparisonTokens
       THEN LET right == ParseRule("ParseLogical", ts, ParserAdvance(ts, left.pos), NoNode) IN
            IF right.err # "" THEN PR(NoNode, right.err, right.pos)
            ELSE PR(BinaryN(token.value, left.node, right.node), "", right.pos)
       ELSE PR(left.node, "", left.pos)

\* parseLogical: the loop over and / or
LogicalLoop(ts, pos, left) ==
  LET token == ParserCurrent(ts, pos) IN
  IF token.type \notin {"And", "Or"} THEN PR(left, "", pos)
  ELSE LET right == ParseRule("ParseProperty", ts, ParserAdvance(ts, pos), NoNode) IN
       IF right.err # "" THEN PR(NoNode, right.err, right.pos)
       ELSE ParseRule("LogicalLoop", ts, right.pos, BinaryN(token.value, left, right.node))

\* parseLogical
ParseLogical(ts, pos) ==
  LET left == ParseRule("ParseProperty", ts, pos, NoNode) IN
  IF left.err # "" THEN PR(NoNode, left.err, left.pos)
  ELSE ParseRule("LogicalLoop", ts, left.pos, left.node)

\* parseProperty: "for p.current().Type == TokenLBracket { node, _ = p.parseIndex(node) }";
\* the error of parseIndex is dropped and its nil node kept
IndexLoop(ts, pos, node) ==
  IF ParserCurrent(ts, pos).type # "LBracket" THEN PR(node, "", pos)
  ELSE LET r == ParseRule("ParseIndex", ts, pos, node) IN ParseRule("IndexLoop", ts, r.pos, r.node)

\* parseProperty
ParseProperty(ts, pos) ==
  LET token == ParserCurrent(ts, pos)
      next  == ParserAdvance(ts, pos)
  IN CASE token.type = "Dot" ->
            IF ParserCurrent(ts, next).type # "Identifier"
            THEN PR(NoNode, "parse error: expected property name after '.'", next)
            ELSE LET name == ParserCurrent(ts, next).value
                     ix   == ParseRule("IndexLoop", ts, ParserAdvance(ts, next), IdentifierN(name))
                 IN IF ParserCurrent(ts, ix.pos).type = "LParen"
                    THEN LET a == ParseRule("ParseArguments", ts, ix.pos, NoNode) IN
                         IF a.err # "" THEN PR(NoNode, a.err, a.pos)
                         ELSE PR(FunctionN(name, a.args), "", a.pos)
                    ELSE PR(ix.node, "", ix.pos)
       [] token.type = "Identifier" ->
            LET ix == ParseRule("IndexLoop", ts, next, IdentifierN(token.value))
            IN IF ParserCurrent(ts, ix.pos).type = "LParen"
               THEN LET a == ParseRule("ParseArguments", ts, ix.pos, NoNode) IN
                    IF a.err # "" THEN PR(NoNode, a.err, a.pos)
                    ELSE PR(FunctionN(token.value, a.args), "", a.pos)
               ELSE PR(ix.node, "", ix.pos)
       [] token.type = "String" -> PR(LiteralN(StrV(token.value)), "", next)
       [] token.type = "Number" ->
            LET num == ParseNumber(token.value) IN
            IF num.err # "" THEN PR(NoNode, num.err, next) ELSE PR(LiteralN(num.val), "", next)
       [] token.type = "LParen" ->
            LET expr == ParseRule("ParseComparison", ts, next, NoNode) IN
            IF expr.err # "" THEN PR(NoNode, expr.err, expr.pos)
            ELSE LET e == ParserExpect(ts, expr.pos, "RParen") IN
                 IF e.err # "" THEN PR(NoNode, e.err, e.pos) ELSE PR(expr.node, "", e.pos)
       [] OTHER -> PR(NoNode, "parse error: unexpected token in property", pos)

\* parseIndex
ParseIndex(ts, pos, object) ==
  LET open == ParserExpect(ts, pos, "LBracket") IN
  IF open.err # "" THEN PR(NoNode, open.err, open.pos)
  ELSE IF ParserCurrent(ts, open.pos).type = "Colon"
  THEN LET end == ParseRule("ParseProperty", ts, ParserAdvance(ts, open.pos), NoNode) IN
       IF end.err # "" THEN PR(NoNode, end.err, end.pos)
       ELSE LET close == ParserExpect(ts, end.pos, "RBracket") IN
            IF close.err # "" THEN PR(NoNode, close.err, close.pos)
            ELSE PR(SliceN(object, NoNode, end.node), "", close.pos)
  ELSE LET start == ParseRule("ParseProperty", ts, open.pos, NoNode) IN
       IF start.err # "" THEN PR(NoNode, start.err, start.pos)
       ELSE IF ParserCurrent(ts, start.pos).type = "Colon"
       THEN LET colon == ParserAdvance(ts, start.pos) IN
            IF ParserCurrent(ts, colon).type = "RBracket"
            THEN PR(SliceN(object, start.node, NoNode), "", ParserAdvance(ts, colon))
            ELSE LET end == ParseRule("ParseProperty", ts, colon, NoNode) IN
                 IF end.err # "" THEN PR(NoNode, end.err, end.pos)
                 ELSE LET close == ParserExpect(ts, end.pos, "RBracket") IN
                      IF close.err # "" THEN PR(NoNode, close.err, close.pos)
                      ELSE PR(SliceN(object, start.node, end.node), "", close.pos)
       ELSE LET close == ParserExpect(ts, start.pos, "RBracket") IN
            IF close.err # "" THEN PR(NoNode, close.err, close.pos)
            ELSE PR(IndexN(object, start.node), "", close.pos)

\* one parse function called on the parser at pos; arg is the function's
\* argument or its loop's accumulator
ParseRule(rule, ts, pos, arg) ==
  CASE rule = "ParseExpression" -> ParseExpression(ts, pos)
    [] rule = "PipeLoop" -> PipeLoop(ts, pos, arg)
    [] rule = "ParsePrimary" -> ParsePrimary(ts, pos)
    [] rule = "ParseSelector" -> ParseSelector(ts, pos)
    [] rule = "ParseFunction" -> ParseFunction(ts, pos)
    [] rule = "ParseArguments" -> ParseArguments(ts, pos)
    [] rule = "ArgumentLoop" -> ArgumentLoop(ts, pos, arg)
    [] rule = "ParseComparison" -> ParseComparison(ts, pos)
    [] rule = "ParseLogical" -> ParseLogical(ts, pos)
    [] rule = "LogicalLoop" -> LogicalLoop(ts, pos, arg)
    [] rule = "ParseProperty" -> ParseProperty(ts, pos)
    [] rule = "IndexLoop" -> IndexLoop(ts, pos, arg)
    [] rule = "ParseIndex" -> ParseIndex(ts, pos, arg)

\* Parser.Parse
ParseTokensPrefix(ts) == ParseExpression(ts, 1)
ParseTokens(ts) ==
  LET ast == ParseExpression(ts, 1) IN
  IF ast.err # "" THEN PR(NoNode, ast.err, ast.pos)
  ELSE IF ParserCurrent(ts, ast.pos).type # "EOF"
  THEN PR(NoNode, "parse error: unexpected token", ast.pos)
  ELSE ast

\* ------------------------------------------------------------ query text to result
\* the tokens of the query texts
TDot == Tok("Dot", ".")
TPipe == Tok("Pipe", "|")
TLParen == Tok("LParen", "(")
TRParen == Tok("RParen", ")")
TLBracket == Tok("LBracket", "[")
TRBracket == Tok("RBracket", "]")
TColon == Tok("Colon", ":")
TEquals == Tok("Equals", "==")
TGreater == Tok("GreaterThan", ">")
TId(name) == Tok("Identifier", name)
TNum(text) == Tok("Number", text)
TStr(text) == Tok("String", text)

\* .name  and  .name(arg)
DotName(name) == <<TDot, TId(name)>>
Call(name, arg) == <<TId(name), TLParen>> \o arg \o <<TRParen>>

\* .headings | filter(.level == k) | map(.text)
TextsOfLevel(k) ==
  DotName("headings") \o <<TPipe>> \o Call("filter", DotName("level") \o <<TEquals, TNum(k)>>)
  \o <<TPipe>> \o Call("map", DotName("text"))

\* .section("t") | .code("l")
SectionCode(t, l) ==
  <<TDot>> \o Call("section", <<TStr(t)>>) \o <<TPipe, TDot>> \o Call("code", <<TStr(l)>>)

\* .headings[0]    .code[-1]    .sections[1:3]
FirstHeading == DotName("headings") \o <<TLBracket, TNum("0"), TRBracket>>
LastCode == DotName("code") \o <<TLBracket, TNum("-1"), TRBracket>>
SectionsOneToThree == DotName("sections") \o <<TLBracket, TNum("1"), TColon, TNum("3"), TRBracket>>

QueryTexts ==
  {TextsOfLevel("1"), TextsOfLevel("2"),
   SectionCode("A", "go"), SectionCode("A", ""),
   \* .headings    .headings | map(.text)    .headings | .nosuch
   DotName("headings"),
   DotName("headings") \o <<TPipe>> \o Call("map", DotName("text")),
   DotName("headings") \o <<TPipe>> \o DotName("nosuch"),
   \* .sections | filter(.start > 1)    .code | filter(.lines > 0)    .code | filter(.nosuch)
   DotName("sections") \o <<TPipe>> \o Call("filter", DotName("start") \o <<TGreater, TNum("1")>>),
   DotName("code") \o <<TPipe>> \o Call("filter", DotName("lines") \o <<TGreater, TNum("0")>>),
   DotName("code") \o <<TPipe>> \o Call("filter", DotName("nosuch")),
   \* .headings | filter(.level[)    .headings | map(.text[)    .headings | filter(.level[0])
   DotName("headings") \o <<TPipe>> \o Call("filter", DotName("level") \o <<TLBracket>>),
   DotName("headings") \o <<TPipe>> \o Call("map", DotName("text") \o <<TLBracket>>),
   DotName("headings") \o <<TPipe>> \o Call("filter", DotName("level") \o <<TLBracket, TNum("0"), TRBracket>>),
   \* .select()  .filter()  .map()  select()  filter()  map()
   <<TDot>> \o Call("select", <<>>), <<TDot>> \o Call("filter", <<>>), <<TDot>> \o Call("map", <<>>),
   Call("select", <<>>), Call("filter", <<>>), Call("map", <<>>),
   \* .headings | map()    .headings | filter(.filter())    .headings | filter(.map())
   DotName("headings") \o <<TPipe>> \o Call("map", <<>>),
   DotName("headings") \o <<TPipe>> \o Call("filter", <<TDot>> \o Call("filter", <<>>)),
   DotName("headings") \o <<TPipe>> \o Call("filter", <<TDot>> \o Call("map", <<>>)),
   \* .headings[0]    .code[-1]    .sections[1:3]    .headings[:2]    .headings[1:]
   FirstHeading, LastCode, SectionsOneToThree,
   DotName("headings") \o <<TLBracket, TColon, TNum("2"), TRBracket>>,
   DotName("headings") \o <<TLBracket, TNum("1"), TColon, TRBracket>>}

TextDocs == {WithLines(b) : b \in UNION {[1..k -> QueryNodes] : k \in 0..MaxNodes}}

\* the AST a compiled plan holds
NodeV(node) == [t |-> "QueryNode", v |-> node]

InitText ==
  /\ walked \in TextDocs
  /\ trailingNewline = TRUE
  /\ doc = Parse(walked, trailingNewline, {})
  /\ sectionStack = <<>>
  /\ currentSection = Nil
  /\ pc = "done"
  /\ query = NoNode
  /\ current = NilV
  /\ results = <<>>
  /\ tasks = <<>>
  /\ fnArgs \in {<<ts>> : ts \in QueryTexts}
  /\ fnOut = NotRun

\* Compiler.CompileString: parse the tokens, keep the AST in the plan
CompileString ==
  /\ fnOut = NotRun
  /\ LET r == ParseTokens(fnArgs[1])
     IN /\ fnOut' = Outcome(IF r.err = "" THEN NodeV(r.node) ELSE NilV, r.err)
        /\ query' = r.node
  /\ UNCHANGED <<walked, trailingNewline, doc, sectionStack, currentSection, pc, current,
                 results, tasks, fnArgs>>

\* the plan run once on a context made by NewEvalContext(doc)
RunPlan ==
  /\ fnOut # NotRun
  /\ fnOut.err = ""
  /\ results = <<>>
  /\ \E ord \in MapOrders(doc, query) :
       LET r == Eval(query, DocV, doc, ord)
       IN /\ results' = <<Outcome(r.val, r.err)>>
          /\ current' = r.cur
          /\ doc' = ApplyGetLines(doc, r.calls)
  /\ UNCHANGED <<walked, trailingNewline, sectionStack, currentSection, pc, query, tasks, fnVars>>

NextText == CompileString \/ RunPlan

SpecText == InitText /\ [][NextText]_vars

\* the query text under test, whether it was parsed, whether it was run
QueryText == fnArgs[1]
Compiled == fnOut # NotRun /\ fnOut.err = ""
Rejected == fnOut # NotRun /\ fnOut.err # ""
Ran == results # <<>>

\* ------------------------------------------------------------ C11
\* the texts of the headings of level k, in document order
HeadingsOfLevel(k) == SelectSeq([i \in 1..Len(doc.headings) |-> i], LAMBDA i : doc.headings[i].Level = k)
LevelTexts(k) == [j \in 1..Len(HeadingsOfLevel(k)) |-> StrV(doc.headings[HeadingsOfLevel(k)[j]].Text)]

\* C11: for any document and level k, `.headings | filter(.level == k) | map(.text)`
\* returns, without error, the texts of exactly the headings of level k in document order
C11_TextsOfLevel ==
  \A k \in {"1", "2"} :
    (QueryText = TextsOfLevel(k) /\ Ran) =>
      /\ results[1].err = ""
      /\ results[1].val.t = "[]interface{}"
      /\ results[1].val.v = LevelTexts(IntTexts[k])

\* ------------------------------------------------------------ C12
\* where the n-th node of a kind stands in the document
PosOf(kind, n) ==
  CHOOSE p \in DOMAIN walked :
    walked[p].kind = kind /\ Cardinality({q \in 1..p : walked[q].kind = kind}) = n
NumCode == Cardinality({p \in DOMAIN walked : walked[p].kind = "code"})
\* the heading whose section .section(t) names
Titled(t) == {k \in 1..NumHeadings : HeadingNodes[k].text = t}
\* code block c lies between heading k and the heading that ends section k
CodeInside(c, k) ==
  /\ PosOf("code", c) > PosOf("heading", k)
  /\ ScopeEnd(k) <= NumHeadings => PosOf("code", c) < PosOf("heading", ScopeEnd(k))
CodeOfSection(t, l) ==
  SelectSeq([c \in 1..NumCode |-> c],
            LAMBDA c : CodeInside(c, SetMax(Titled(t))) /\ walked[PosOf("code", c)].lang = l)
SectionCodeLangs == {"go", ""}

\* C12: `.section(T) | .code(L)` returns exactly the code blocks tagged with
\* language L that lie inside section T (attached to T or to a descendant),
\* in document order, and no block from outside T or with another language
C12_SectionCodeByLanguage ==
  \A l \in SectionCodeLangs :
    (QueryText = SectionCode("A", l) /\ Ran /\ Titled("A") # {}) =>
      results[1] = Outcome(CodeBlocksV(CodeOfSection("A", l)), "")

\* a block nested under a child section of A is returned
C12_Witness ==
  /\ QueryText = SectionCode("A", "go")
  /\ Ran
  /\ Titled("A") # {}
  /\ results[1].err = ""
  /\ \E c \in SeqToSet(results[1].val.v) :
       \A s \in DOMAIN doc.sections :
         c \in SeqToSet(doc.sections[s].codeBlocks) => doc.sections[s].Parent # Nil

\* ------------------------------------------------------------ C13
\* the outcomes that are a fault of the runtime, not an error value
Faults == {NilDereference, SliceOutOfBounds}

\* C13: for every token stream and every Document, parsing followed by
\* evaluation ends in a result value or an error value; no query, including one
\* with a malformed bracket expression inside an argument list, makes the
\* engine fault during parsing or evaluation
C13_NoFault ==
  /\ fnOut.err \notin Faults
  /\ \A i \in DOMAIN results : results[i].err \notin Faults

\* ------------------------------------------------------------ C14
\* the query texts that use select, filter or map with no argument
ZeroArgumentUses ==
  {<<TDot>> \o Call(f, <<>>) : f \in {"select", "filter", "map"}}
  \cup {Call(f, <<>>) : f \in {"select", "filter", "map"}}
  \cup {DotName("headings") \o <<TPipe>> \o Call("map", <<>>),
        DotName("headings") \o <<TPipe>> \o Call("filter", <<TDot>> \o Call("filter", <<>>)),
        DotName("headings") \o <<TPipe>> \o Call("filter", <<TDot>> \o Call("map", <<>>))}

\* C14: every use of select, filter or map with zero arguments, with a leading
\* dot or as a bare call, is rejected by the parser with a parse error carrying
\* a usage example; no such query becomes an AST and reaches evaluation
C14_ZeroArgumentsRejected ==
  (QueryText \in ZeroArgumentUses /\ fnOut # NotRun) =>
    /\ fnOut.err \in UsageErrors
    /\ ~Ran

\* ------------------------------------------------------------ C15
\* C15: a selector immediately followed by an index or slice in a pipeline
\* stage is accepted by the parser and evaluated on the selector's result:
\* .headings[0] yields the first heading, .code[-1] the last code block,
\* .sections[1:3] the 2nd and 3rd sections
C15_SelectorIndexAccepted ==
  (QueryText \in {FirstHeading, LastCode, SectionsOneToThree} /\ fnOut # NotRun) =>
    /\ fnOut.err = ""
    /\ (Ran /\ QueryText = FirstHeading /\ Len(doc.headings) >= 1) =>
         results[1] = Outcome(HeadingV(1), "")
    /\ (Ran /\ QueryText = LastCode /\ Len(doc.codeBlocks) >= 1) =>
         results[1] = Outcome(CodeBlockV(Len(doc.codeBlocks)), "")
    /\ (Ran /\ QueryText = SectionsOneToThree /\ Len(doc.sections) >= 3) =>
         results[1] = Outcome(SectionsV(<<2, 3>>), "")

\* ------------------------------------------------------------ directory traversal
\* bound on the number of files under the directory
MaxFiles == 2

\* names are sequences of characters; a file is its directory (<<>> for the
\* directory searched), its name without the extension, its extension, and what
\* the loader and Document.Search do with it
RootDir == <<>>
DirNames == << <<".", "h">>, <<"s">> >>
Extensions == {".md", ".MD", ".txt"}
LoadOutcomes == {<<FALSE, 0, 0>>, <<TRUE, 1, 1>>, <<TRUE, 2, 0>>}
Files ==
  {[dir |-> d, name |-> n, ext |-> e, loads |-> o[1], lines |-> o[2], hits |-> o[3]] :
     d \in {RootDir, DirNames[1], DirNames[2]}, n \in {<<"a">>, <<".", "a">>},
     e \in Extensions, o \in LoadOutcomes}
FileLists == UNION {[1..k -> Files] : k \in 0..MaxFiles}

\* strings.HasPrefix(name, ".")
HasDotPrefix(name) == name # <<>> /\ name[1] = "."
\* strings.ToLower(filepath.Ext(path))
LowerExt(ext) == IF ext = ".MD" THEN ".md" ELSE ext
traversalExtensions ==
  {".md", ".markdown", ".mdown", ".mkd", ".html", ".htm", ".xhtml", ".pdf", ".json", ".jsonl",
   ".ndjson", ".yaml", ".yml"}
IsTraversalFile(f) == LowerExt(f.ext) \in traversalExtensions

\* the callback of SearchDirWithLoader on the files in walk order: WalkDir
\* enters every directory, the callback tests the file's own name
RECURSIVE SearchWalk(_, _, _)
SearchWalk(files, i, matches) ==
  IF i > Len(files) THEN matches
  ELSE LET f == files[i] IN
       IF ~IsTraversalFile(f) \/ HasDotPrefix(f.name) \/ ~f.loads
       THEN SearchWalk(files, i + 1, matches)
       ELSE SearchWalk(files, i + 1, matches \o [k \in 1..f.hits |-> i])
SearchDirWithLoader(files) == Outcome([Matches |-> SearchWalk(files, 1, <<>>)], "")

\* os.ReadDir of a directory after the sort: directories first, then files
DirEntry(isDir, name, file) == [IsDir |-> isDir, Name |-> name, file |-> file]
ReadDir(files, dir) ==
  (IF dir = RootDir
   THEN LET present == SelectSeq(DirNames, LAMBDA d : \E i \in DOMAIN files : files[i].dir = d)
        IN [k \in DOMAIN present |-> DirEntry(TRUE, present[k], 0)]
   ELSE <<>>)
  \o LET here == SelectSeq([i \in DOMAIN files |-> i], LAMBDA i : files[i].dir = dir)
     IN [k \in DOMAIN here |-> DirEntry(FALSE, files[here[k]].name, here[k])]

\* a DirFileNode and the totals added to the DirTreeResult while building it
DirFileNode(entry, lines, children) ==
  [Name |-> entry.Name, IsDir |-> entry.IsDir, file |-> entry.file, Lines |-> lines,
   Children |-> children]
Built(node, totalFiles, totalLines) ==
  [node |-> node, TotalFiles |-> totalFiles, TotalLines |-> totalLines]

RECURSIVE BuildDirNode(_, _)
RECURSIVE DirLoop(_, _, _, _, _, _)
\* the loop of buildDirNode over the sorted entries
DirLoop(files, entries, k, children, totalFiles, totalLines) ==
  IF k > Len(entries) THEN [Children |-> children, TotalFiles |-> totalFiles, TotalLines |-> totalLines]
  ELSE LET entry == entries[k] IN
       IF HasDotPrefix(entry.Name) \/ (~entry.IsDir /\ ~IsTraversalFile(files[entry.file]))
       THEN DirLoop(files, entries, k + 1, children, totalFiles, totalLines)
       ELSE LET child == BuildDirNode(files, entry) IN
            IF child.node.IsDir /\ child.node.Children = <<>>
            THEN DirLoop(files, entries, k + 1, children,
                         totalFiles + child.TotalFiles, totalLines + child.TotalLines)
            ELSE DirLoop(files, entries, k + 1, Append(children, child.node),
                         totalFiles + child.TotalFiles, totalLines + child.TotalLines)

\* buildDirNode
BuildDirNode(files, entry) ==
  IF ~entry.IsDir
  THEN LET f == files[entry.file] IN
       IF ~IsTraversalFile(f) THEN Built(DirFileNode(entry, 0, <<>>), 0, 0)
       ELSE IF ~f.loads THEN Built(DirFileNode(entry, -1, <<>>), 0, 0)
       ELSE Built(DirFileNode(entry, f.lines, <<>>), 1, f.lines)
  ELSE LET l == DirLoop(files, ReadDir(files, entry.Name), 1, <<>>, 0, 0)
       IN Built(DirFileNode(entry, 0, l.Children), l.TotalFiles, l.TotalLines)

\* BuildDirTreeWithLoader
BuildDirTreeWithLoader(files) ==
  LET root == BuildDirNode(files, DirEntry(TRUE, RootDir, 0))
  IN Outcome([TotalFiles |-> root.TotalFiles, TotalLines |-> root.TotalLines,
              Root |-> root.node.Children], "")

InitDir ==
  /\ NoDoc
  /\ NoEval
  /\ fnArgs \in {<<files>> : files \in FileLists}
  /\ fnOut = NotRun

\* SearchDir: its result is kept in results
SearchDir ==
  /\ results = <<>>
  /\ results' = <<SearchDirWithLoader(fnArgs[1])>>
  /\ UNCHANGED <<walked, trailingNewline, doc, sectionStack, currentSection, pc, query, current,
                 tasks, fnVars>>

\* BuildDirTree: its result is kept in fnOut
BuildDirTree ==
  /\ fnOut = NotRun
  /\ fnOut' = BuildDirTreeWithLoader(fnArgs[1])
  /\ UNCHANGED <<walked, trailingNewline, doc, sectionStack, currentSection, pc, evalVars, fnArgs>>

NextDir == SearchDir \/ BuildDirTree

SpecDir == InitDir /\ [][NextDir]_vars

\* ------------------------------------------------------------ C16
DirFiles == fnArgs[1]
\* the two readings of "hidden file": its own name starts with a dot, or its
\* name or its directory's does
Readings == {"name", "path"}
HiddenFile(i, reading) ==
  \/ HasDotPrefix(DirFiles[i].name)
  \/ reading = "path" /\ HasDotPrefix(DirFiles[i].dir)
Supported(i) == IsTraversalFile(DirFiles[i])
Considered(reading) == {i \in DOMAIN DirFiles : Supported(i) /\ ~HiddenFile(i, reading)}
LoadedFiles(reading) == {i \in Considered(reading) : DirFiles[i].loads}
RECURSIVE SumLines(_)
SumLines(S) == IF S = {} THEN 0 ELSE LET i == CHOOSE x \in S : TRUE
                                     IN DirFiles[i].lines + SumLines(S \ {i})
\* the files that have a node in a list of tree nodes
RECURSIVE FileNodes(_)
FileNodes(nodes) ==
  UNION {IF nodes[k].IsDir THEN FileNodes(nodes[k].Children) ELSE {nodes[k].file} :
           k \in DOMAIN nodes}
Searched == results # <<>>
TreeBuilt == fnOut # NotRun

\* C16: directory search and directory tree building consider exactly the
\* non-hidden files with a supported extension: a file with another extension
\* never yields a match or a tree node, a file whose loader fails is skipped
\* without aborting the traversal, TotalFiles is the number of supported files
\* that loaded and TotalLines the sum of their line counts
C16_TraversalConsidersSupportedFiles ==
  (Searched /\ TreeBuilt) =>
    \E reading \in Readings :
      /\ results[1].err = ""
      /\ fnOut.err = ""
      /\ \A i \in DOMAIN DirFiles :
           Cardinality({k \in DOMAIN results[1].val.Matches : results[1].val.Matches[k] = i})
             = IF i \in LoadedFiles(reading) THEN DirFiles[i].hits ELSE 0
      /\ FileNodes(fnOut.val.Root) \subseteq Considered(reading)
      /\ fnOut.val.TotalFiles = Cardinality(LoadedFiles(reading))
      /\ fnOut.val.TotalLines = SumLines(LoadedFiles(reading))

\* ------------------------------------------------------------ slice operators
\* bounds on the lists and on the count given to Take and Skip
MaxListLen == 3
MaxTake == 4

\* Filter; a predicate is given as the set of items it holds for
Filter(items, predicate) == SelectSeq(items, LAMBDA item : item \in predicate)

\* Take
TakeAll(items, n) == items
Take(items, n) ==
  IF n <= 0 THEN <<>>
  ELSE IF n >= Len(items) THEN items
  ELSE SubSeq(items, 1, n)

\* Skip
Skip(items, n) ==
  IF n <= 0 THEN items
  ELSE IF n >= Len(items) THEN <<>>
  ELSE SubSeq(items, n + 1, Len(items))

ItemLists == UNION {[1..k -> {"a", "b"}] : k \in 0..MaxListLen}
Counts == (0 - 1)..MaxTake
\* the predicates given to Chain.Filter
KeepA == {"a"}
KeepAll == {"a", "b"}

\* a Chain: its items and the method called last
Chain(items, last) == [items |-> items, last |-> last]

\* NewChain(xs); Take(xs, n) and Skip(xs, n) have not been called
InitOps ==
  /\ NoDoc
  /\ query = NoNode
  /\ current = NilV
  /\ results = <<>>
  /\ \E xs \in ItemLists, n \in Counts :
       /\ fnArgs = <<xs, n>>
       /\ tasks = <<Chain(xs, "NewChain")>>
  /\ fnOut = NotRun

\* Take(xs, n), kept in results
ApplyTake ==
  /\ results = <<>>
  /\ results' = <<Outcome(Take(fnArgs[1], fnArgs[2]), "")>>
  /\ UNCHANGED <<walked, trailingNewline, doc, sectionStack, currentSection, pc, query, current,
                 tasks, fnVars>>

\* Skip(xs, n), kept in fnOut
ApplySkip ==
  /\ fnOut.err = NotRun.err
  /\ fnOut' = Outcome(Skip(fnArgs[1], fnArgs[2]), "")
  /\ UNCHANGED <<walked, trailingNewline, doc, sectionStack, currentSection, pc, evalVars, fnArgs>>

ChainFrame ==
  UNCHANGED <<walked, trailingNewline, doc, sectionStack, currentSection, pc, query, current,
              results, fnVars>>

\* Chain.Filter
ChainFilter ==
  /\ tasks[1].last = "NewChain"
  /\ \/ tasks' = <<Chain(Filter(tasks[1].items, KeepA), "Filter")>>
     \/ tasks' = <<Chain(Filter(tasks[1].items, KeepAll), "Filter")>>
  /\ ChainFrame

\* Chain.Take
ChainTake ==
  /\ tasks[1].last \in {"NewChain", "Filter"}
  /\ tasks' = <<Chain(Take(tasks[1].items, fnArgs[2]), "Take")>>
  /\ ChainFrame

\* Chain.Skip
ChainSkip ==
  /\ tasks[1].last \in {"NewChain", "Filter"}
  /\ tasks' = <<Chain(Skip(tasks[1].items, fnArgs[2]), "Skip")>>
  /\ ChainFrame

NextOps == ApplyTake \/ ApplySkip \/ ChainFilter \/ ChainTake \/ ChainSkip

SpecOps == InitOps /\ [][NextOps]_vars

\* ------------------------------------------------------------ C17
Min2(a, b) == IF a <= b THEN a ELSE b
Max2(a, b) == IF a >= b THEN a ELSE b
TakeArgs == fnArgs[1]
TakeCount == fnArgs[2]
PrefixLen == Min2(Max2(TakeCount, 0), Len(TakeArgs))
Taken == results # <<>>
Skipped == fnOut.err # NotRun.err
TakeSkipSplit ==
  /\ Taken => results[1] = Outcome(SubSeq(TakeArgs, 1, PrefixLen), "")
  /\ Skipped => fnOut = Outcome(SubSeq(TakeArgs, PrefixLen + 1, Len(TakeArgs)), "")
  /\ (Taken /\ Skipped) => results[1].val \o fnOut.val = TakeArgs

\* C17: for every list xs and every integer n (negative, zero, or larger than
\* len(xs)), Take(xs, n) is the prefix of xs of length min(max(n,0), len(xs))
\* and Skip(xs, n) is the rest, so Take followed by Skip equals xs; a chain
\* ending in Take(n) never holds more than n items
C17_TakeSkipSplit ==
  /\ TakeSkipSplit
  /\ tasks[1].last = "Take" => Len(tasks[1].items) <= TakeCount

\* C17 amended: as C17, and a chain ending in Take(n) never holds more than
\* max(n, 0) items
C17_TakeSkipSplitNonNegative ==
  /\ TakeSkipSplit
  /\ tasks[1].last = "Take" => Len(tasks[1].items) <= Max2(TakeCount, 0)

\* Take and Skip have split a list in the middle, and a filtered chain was cut
\* by Take
C17_Witness ==
  /\ Taken /\ Skipped
  /\ results[1].val # <<>> /\ fnOut.val # <<>>
  /\ tasks[1].last = "Take"
  /\ Len(tasks[1].items) = TakeCount
  /\ Len(tasks[1].items) < Len(TakeArgs)

\* ------------------------------------------------------------ C18
IndexKeys ==
  {IntV(i) : i \in (0 - MaxSliceIdx)..MaxSliceIdx}
  \cup {Int64V(i) : i \in (0 - MaxSliceIdx)..MaxSliceIdx}
  \cup {Float64V(0), StrV("0"), NilV}

InitIndex ==
  /\ NoDoc
  /\ NoEval
  /\ fnArgs \in {<<Iota(n), index>> : n \in 0..MaxSliceLen, index \in IndexKeys}
  /\ fnOut = NotRun

ApplyGetIndex ==
  /\ fnOut = NotRun
  /\ fnOut' = GetIndex(fnArgs[1], fnArgs[2])
  /\ UNCHANGED <<walked, trailingNewline, doc, sectionStack, currentSection, pc, evalVars, fnArgs>>

NextIndex == ApplyGetIndex

SpecIndex == InitIndex /\ [][NextIndex]_vars

RebindingRoot ==
  \/ query.kind \in {"Pipe", "Filter"}
  \/ query.kind = "Function" /\ query.name = "map"

\* C19: after a Pipe, Filter or Map node has been evaluated, whether it
\* returned a value or an error, the EvalContext's current value is the value
\* it held immediately before the node was evaluated (here the Document the
\* context was made for)
C19_CurrentRestored ==
  (Ran /\ RebindingRoot) => current = DocV

\* ------------------------------------------------------------ truthiness
\* predicates whose values are of every kind the engine produces: strings,
\* ints, int64 and float64 literals, booleans, collections, objects
TruthPredicates ==
  {IdentifierN("language"), IdentifierN("level"),
   LiteralN(Int64V(0)), LiteralN(Float64V(0)), LiteralN(Float64V(2)), LiteralN(StrV("")),
   BinaryN("==", IdentifierN("level"), LiteralN(Int64V(2))),
   SelectorN("children", <<>>), IdentifierN("heading")}

\* the values handed to toBool directly
TruthValues ==
  {NilV, DocV, BoolV(TRUE), BoolV(FALSE), IntV(0), IntV(1), IntV(0 - 1), Int64V(0), Int64V(2),
   Float64V(0), Float64V(2), StrV(""), StrV("A"), TextV("CodeBlock", 1, TRUE),
   TextV("CodeBlock", 1, FALSE), ListV(<<>>), Iota(1), HeadingsV(<<>>), TextsV(<<>>), HeadingV(1)}

\* either a filter over a collection of a document, or one call toBool(v)
InitTruth ==
  /\ sectionStack = <<>>
  /\ currentSection = Nil
  /\ pc = "done"
  /\ results = <<>>
  /\ tasks = <<>>
  /\ fnOut = NotRun
  /\ trailingNewline = TRUE
  /\ \/ /\ walked \in TextDocs
        /\ doc = Parse(walked, trailingNewline, {})
        /\ query \in {FilterN(p) : p \in TruthPredicates}
        /\ current \in Collections(doc)
        /\ fnArgs = <<current>>
     \/ /\ walked = <<>>
        /\ doc = Parse(walked, trailingNewline, {})
        /\ query = NoNode
        /\ current = NilV
        /\ fnArgs \in {<<"toBool", v>> : v \in TruthValues}

\* VisitFilter on the collection
FilterByTruth ==
  /\ Len(fnArgs) = 1
  /\ ApplyFilter

\* toBool(v)
ApplyToBool ==
  /\ Len(fnArgs) = 2
  /\ fnOut = NotRun
  /\ fnOut' = Outcome(BoolV(ToBool(fnArgs[2])), "")
  /\ UNCHANGED <<walked, trailingNewline, doc, sectionStack, currentSection, pc, evalVars, fnArgs>>

NextTruth == FilterByTruth \/ ApplyToBool

SpecTruth == InitTruth /\ [][NextTruth]_vars

\* ------------------------------------------------------------ C20
\* the falsy values the rule lists: nil, the empty string, a numeric zero, an
\* empty collection
ListedFalsy(v) ==
  \/ v.t = "nil"
  \/ v.t = "string" /\ v.v = ""
  \/ v.t = "text" /\ v.v[3]
  \/ v.t \in {"int", "int64", "float64"} /\ v.v = 0
  \/ v.t \in SliceTypes /\ v.v = <<>>
\* the same, and the boolean false
ListedFalsyOrFalse(v) == ListedFalsy(v) \/ v = BoolV(FALSE)

ToBoolCalled == Len(fnArgs) = 2 /\ fnOut # NotRun
FilterRan == Len(fnArgs) = 1 /\ fnOut # NotRun /\ PredicateTotal

Elements(d) ==
  {HeadingV(i) : i \in DOMAIN d.headings} \cup {SectionV(i) : i \in DOMAIN d.sections}
    \cup {CodeBlockV(i) : i \in DOMAIN d.codeBlocks} \cup {LinkV(i) : i \in DOMAIN d.links}

\* the property names of docs/syntax.md, and one name that is no property
PropertyNames ==
  {"level", "text", "id", "heading", "children", "start", "end", "language", "content",
   "lines", "url", "nosuch"}

InitProp ==
  /\ walked \in FilterDocs
  /\ trailingNewline = TRUE
  /\ doc = Parse(walked, trailingNewline, {})
  /\ sectionStack = <<>>
  /\ currentSection = Nil
  /\ pc = "done"
  /\ current \in Elements(doc)
  /\ query \in {SelectorN(name, <<>>) : name \in PropertyNames}
  /\ results = <<>>
  /\ tasks = <<>>
  /\ fnArgs = <<current, query.name>>
  /\ fnOut = NotRun

\* `... | .name`: the pipe stage visits a Selector node with Current the element
ReadPiped ==
  /\ results = <<>>
  /\ LET r == Eval(query, fnArgs[1], doc, SomeOrder(LangKeys))
     IN /\ results' = <<Outcome(r.val, r.err)>>
        /\ current' = r.cur
        /\ doc' = ApplyGetLines(doc, r.calls)
  /\ UNCHANGED <<walked, trailingNewline, sectionStack, currentSection, pc, query, tasks,
                 fnArgs, fnOut>>

\* `filter(.name)` / `map(.name)`: the argument is an Identifier node visited with
\* Current the element
ReadInArgument ==
  /\ fnOut = NotRun
  /\ LET r == Eval(IdentifierN(fnArgs[2]), fnArgs[1], doc, SomeOrder(LangKeys))
     IN /\ fnOut' = Outcome(r.val, r.err)
        /\ doc' = ApplyGetLines(doc, r.calls)
  /\ UNCHANGED <<walked, trailingNewline, sectionStack, currentSection, pc, query, current,
                 results, tasks, fnArgs>>

NextProp == ReadPiped \/ ReadInArgument

SpecProp == InitProp /\ [][NextProp]_vars

\* the properties the documentation lists for each kind of element
ListedProperties(t) ==
  CASE t = "*Heading" -> {"level", "text", "id"}
    [] t = "*Section" -> {"heading", "text", "children", "start", "end"}
    [] t = "*CodeBlock" -> {"language", "content", "lines"}
    [] t = "*Link" -> {"text", "url"}

ReadBoth == results # <<>> /\ fnOut.err # NotRun.err

\* C21: for every heading, section, code block and link and every property
\* listed for its kind, the piped read and the read inside an argument both
\* succeed and give the same value; a name that is no property of the element
\* is an error when read inside an argument.
C21_PropertyReadsAgree ==
  ReadBoth =>
    IF fnArgs[2] \in ListedProperties(fnArgs[1].t)
    THEN results[1].err = "" /\ fnOut.err = "" /\ results[1].val = fnOut.val
    ELSE fnOut.err # ""

\* ---------------------------------------------------------------------------
\* The code-block indexes after the walk
\* ---------------------------------------------------------------------------

\* the fenced code blocks of the source, in document order
FencedNodes == SelectSeq(walked, LAMBDA n : n.kind = "code")

\* the positions of block cid in the per-language list of tag lang
PlacesIn(lang, cid) ==
  {k \in DOMAIN Lookup(doc.codeByLang, lang) : Lookup(doc.codeByLang, lang)[k] = cid}

FlatListInOrder ==
  /\ Len(doc.codeBlocks) = Len(FencedNodes)
  /\ \A i \in DOMAIN doc.codeBlocks : doc.codeBlocks[i].Language = FencedNodes[i].lang

\* C22: after indexing, the flat code-block list holds every fenced block once in
\* document order, every block (whatever its tag, the empty tag included) is
\* exactly once in the per-language list of its tag, and the per-language lists
\* together hold exactly the blocks of the flat list.
C22_CodeBlockIndexes ==
  Indexed =>
    /\ FlatListInOrder
    /\ \A cid \in DOMAIN doc.codeBlocks :
         /\ Cardinality(PlacesIn(doc.codeBlocks[cid].Language, cid)) = 1
         /\ \A lang \in Langs \ {doc.codeBlocks[cid].Language} : PlacesIn(lang, cid) = {}
    /\ UNION {SeqToSet(Lookup(doc.codeByLang, lang)) : lang \in Langs} = DOMAIN doc.codeBlocks

\* ---------------------------------------------------------------------------
\* Unary operators in query text
\* ---------------------------------------------------------------------------

\* the tokens of `!` and `-`; the parser's switches name neither type
TNot == Tok("Not", "!")
TMinus == Tok("Minus", "-")

\* !.headings    - 1    .headings | filter(!.level)    .headings | filter(-.level > 0)
\* each with the Unary node the grammar of docs/syntax.md gives it
UnaryUses ==
  {[text |-> <<TNot>> \o DotName("headings"),
    ast  |-> UnaryN("!", SelectorN("headings", <<>>))],
   [text |-> <<TMinus, TNum("1")>>,
    ast  |-> UnaryN("-", LiteralN(IntV(1)))],
   [text |-> DotName("headings") \o <<TPipe>> \o Call("filter", <<TNot>> \o DotName("level")),
    ast  |-> PipeN(SelectorN("headings", <<>>), FilterN(UnaryN("!", IdentifierN("level"))))],
   [text |-> DotName("headings") \o <<TPipe>>
               \o Call("filter", <<TMinus>> \o DotName("level") \o <<TGreater, TNum("0")>>),
    ast  |-> PipeN(SelectorN("headings", <<>>),
                   FilterN(BinaryN(">", UnaryN("-", IdentifierN("level")), LiteralN(IntV(0)))))]}

\* the same queries without the operator:  .headings    1    .headings | filter(.level)
PlainUses ==
  {DotName("headings"), <<TNum("1")>>,
   DotName("headings") \o <<TPipe>> \o Call("filter", DotName("level"))}

InitUnary ==
  /\ walked \in TextDocs
  /\ trailingNewline = TRUE
  /\ doc = Parse(walked, trailingNewline, {})
  /\ sectionStack = <<>>
  /\ currentSection = Nil
  /\ pc = "done"
  /\ query = NoNode
  /\ current = NilV
  /\ results = <<>>
  /\ tasks = <<>>
  /\ fnArgs \in {<<ts>> : ts \in {u.text : u \in UnaryUses} \cup PlainUses}
  /\ fnOut = NotRun

SpecUnary == InitUnary /\ [][NextText]_vars

\* C23: a query that applies `!` or `-` to an operand is accepted by the parser
\* as a Unary node over that operand, and running it gives no parse error:
\* `!x` the negated truthiness of x, `-x` the arithmetic negation of a numeric x.
C23_UnaryAccepted ==
  \A u \in UnaryUses :
    (QueryText = u.text /\ fnOut.err # NotRun.err) =>
      /\ Compiled
      /\ query = u.ast
      /\ Ran => Eval(u.ast, DocV, doc, SomeOrder(LangKeys)).val = results[1].val

\* ---------------------------------------------------------------------------
\* Document.Search over the source text; a string is a sequence of characters
\* ---------------------------------------------------------------------------

\* the nodes of the searched documents: headings "# A" .. "## B", the empty
\* heading "#", and one-word paragraphs "a" and "B"
SearchNodes ==
  {[kind |-> "heading", level |-> level, text |-> text, hasLines |-> TRUE, lang |-> "",
    lines |-> 0, line |-> 0] : level \in 1..2, text \in Texts}
  \cup {[kind |-> "heading", level |-> 1, text |-> "", hasLines |-> FALSE, lang |-> "",
         lines |-> 0, line |-> 0]}
  \cup {[kind |-> "other", level |-> 0, text |-> text, hasLines |-> FALSE, lang |-> "",
         lines |-> 0, line |-> 0] : text \in {"a", "B"}}

SearchDocs == {WithLines(b) : b \in UNION {[1..k -> SearchNodes] : k \in 0..MaxNodes}}

\* "#" repeated level times
Hashes(level) == [i \in 1..level |-> "#"]

\* the source line of a node
SourceLine(n) ==
  IF n.kind = "heading"
  THEN (IF n.text = "" THEN Hashes(n.level) ELSE Hashes(n.level) \o <<" ", n.text>>)
  ELSE <<n.text>>

\* strings.Split(string(source), "\n"): one entry per node line, and the empty
\* entry after the final newline
SourceLines(ns, nl) ==
  IF ns = <<>> THEN <<<<>>>>
  ELSE [i \in DOMAIN ns |-> SourceLine(ns[i])] \o (IF nl THEN <<<<>>>> ELSE <<>>)

\* strings.Join(lines, "\n")
RECURSIVE JoinLines(_)
JoinLines(lines) ==
  IF Len(lines) = 0 THEN <<>>
  ELSE IF Len(lines) = 1 THEN lines[1]
  ELSE JoinLines(Front(lines)) \o <<"\n">> \o Last(lines)

\* Section.GetText of a section whose source is set
GetText(sec, lines) ==
  LET totalLines == Len(lines)
      start == IF sec.Start = 0 THEN 1 ELSE sec.Start
      end   == IF sec.End = 0 \/ sec.End > totalLines THEN totalLines ELSE sec.End
  IN IF start > totalLines THEN <<>>
     ELSE IF end < start THEN <<>>
     ELSE JoinLines(SubSeq(lines, start, end))

\* strings.ToLower, one character and a string
LowerSame(c) == c
Lower(c) == CASE c = "A" -> "a" [] c = "B" -> "b" [] OTHER -> c
ToLower(s) == [i \in DOMAIN s |-> Lower(s[i])]

\* strings.Contains
StringsContains(s, substr) ==
  \E i \in 0..(Len(s) - Len(substr)) : SubSeq(s, i + 1, i + Len(substr)) = substr

\* Document.ReadableText of a Markdown document: the full content
ReadableText(lines) == JoinLines(lines)

\* a SearchResult: Section and Lines; the fallback match has Lines "n/a"
SearchResult(section, lines) == [Section |-> section, Lines |-> lines]
NotApplicable == <<>>

\* Document.Search
Search(d, lines, q) ==
  LET lowered == ToLower(q)
      text(sid) == GetText(d.sections[sid], lines)
      hasSearchableSections == \E sid \in DOMAIN d.sections : text(sid) # <<>>
      hits == SelectSeq(GetSections(d),
                        LAMBDA sid : text(sid) # <<>> /\ StringsContains(ToLower(text(sid)), lowered))
      matches == [k \in DOMAIN hits |->
                    SearchResult(d.headings[d.sections[hits[k]].Heading].Text,
                                 <<d.sections[hits[k]].Start, d.sections[hits[k]].End>>)]
  IN IF ~hasSearchableSections /\ StringsContains(ToLower(ReadableText(lines)), lowered)
     THEN Append(matches, SearchResult("Document", NotApplicable))
     ELSE matches

\* the query terms:  ""  a  A  b  z  #  and  "a" at the end of a line
SearchQueries == {<<>>, <<"a">>, <<"A">>, <<"b">>, <<"z">>, <<"#">>, <<"a", "\n">>}

InitSearch ==
  /\ walked \in SearchDocs
  /\ trailingNewline = TRUE
  /\ doc = Parse(walked, trailingNewline, {})
  /\ sectionStack = <<>>
  /\ currentSection = Nil
  /\ pc = "done"
  /\ query = NoNode
  /\ current = NilV
  /\ results = <<>>
  /\ tasks = <<>>
  /\ fnArgs \in {<<q>> : q \in SearchQueries}
  /\ fnOut = NotRun

ApplySearch ==
  /\ fnOut = NotRun
  /\ fnOut' = Outcome([t |-> "*SearchResults",
                       v |-> Search(doc, SourceLines(walked, trailingNewline), fnArgs[1])], "")
  /\ UNCHANGED <<walked, trailingNewline, doc, sectionStack, currentSection, pc, evalVars,
                 fnArgs>>

NextSearch == ApplySearch

SpecSearch == InitSearch /\ [][NextSearch]_vars

\* the text of a section read off the source: the characters of its lines Start..End (line
\* numbers start at 1), and containment up to the case of letters
SameLetter(a, b) == a = b \/ {a, b} \in {{"A", "a"}, {"B", "b"}}
RangeText(sid) ==
  LET lines == SourceLines(walked, trailingNewline)
      from  == Max2(doc.sections[sid].Start, 1)
      to    == Min2(doc.sections[sid].End, Len(lines))
  IN JoinLines([k \in 1..(to - from + 1) |-> lines[from + k - 1]])
ContainsFolded(s, q) ==
  \E i \in 0..(Len(s) - Len(q)) : \A k \in DOMAIN q : SameLetter(s[i + k], q[k])
SearchDone == fnOut.err # NotRun.err
Matches == fnOut.val.v
SectionHits ==
  SelectSeq([sid \in DOMAIN doc.sections |-> sid],
            LAMBDA sid : RangeText(sid) # <<>> /\ ContainsFolded(RangeText(sid), fnArgs[1]))
FallsBack == \A sid \in DOMAIN doc.sections : RangeText(sid) = <<>>
SearchPerSection ==
  IF FallsBack
  THEN /\ Len(Matches) <= 1
       /\ Len(Matches) = 1 <=>
            ContainsFolded(JoinLines(SourceLines(walked, trailingNewline)), fnArgs[1])
  ELSE /\ Len(Matches) = Len(SectionHits)
       /\ \A k \in DOMAIN Matches :
            /\ Matches[k].Section = doc.headings[doc.sections[SectionHits[k]].Heading].Text
            /\ Matches[k].Lines = <<doc.sections[SectionHits[k]].Start,
                                    doc.sections[SectionHits[k]].End>>

\* C24: Search(q) emits exactly one match for each section whose text (lines
\* Start..End) contains q case-insensitively, in section order, and none for any
\* other section, so that the number of matches never exceeds the number of
\* sections; only when no section has non-empty text does it fall back to the
\* readable text, with at most one match.
C24_SearchPerSection ==
  SearchDone => SearchPerSection /\ Len(Matches) <= Len(doc.sections)

\* C24 as amended: the bound by the number of sections holds when the search
\* does not fall back; a fallback search emits at most one match.
C24_SearchPerSectionOrFallback ==
  SearchDone => SearchPerSection /\ (~FallsBack => Len(Matches) <= Len(doc.sections))

C24_Witness ==
  /\ SearchDone
  /\ fnArgs[1] = <<"a">>
  /\ Len(doc.sections) = 3
  /\ Len(Matches) = 2
  /\ Matches[1].Section = "B"

\* ---------------------------------------------------------------------------
\* The default tree of one section, whole-document and section-scoped
\* ---------------------------------------------------------------------------

\* the code children of a tree node, as (language key, meta) pairs
CodeChildren(node) ==
  {<<node.Children[k].Text, node.Children[k].Meta>> :
     k \in {j \in DOMAIN node.Children : node.Children[j].Type = "code"}}

\* one pair per distinct language among the blocks attached directly to the
\* section, with the count of those blocks
DirectCodeChildren(sid) ==
  LET own == doc.sections[sid].codeBlocks
      keys == {LangKey(doc.codeBlocks[own[k]].Language) : k \in DOMAIN own}
  IN {<<key, CodeMeta(Cardinality({k \in DOMAIN own : LangKey(doc.codeBlocks[own[k]].Language) = key}))>> :
        key \in keys}

\* the section .section("A") selects
SectionA == GetSection(doc, "A").section

\* C25: in default tree mode a section node has one code child per distinct
\* language among the blocks attached directly to that section, with the direct
\* count, in the whole-document tree and in the section-scoped tree alike:
\* the node `.section("A") | .tree` returns for A is the subtree `.tree` holds for A.
C25_SectionTreeIsSubtree ==
  \A k \in DOMAIN results :
    /\ (query = QTree(TreeModeDefault) /\ results[k].err = "") =>
         \A j \in DOMAIN results[k].val.v.Root :
           CodeChildren(results[k].val.v.Root[j]) = DirectCodeChildren(GetTableOfContents(doc)[j])
    /\ (query = QSectionTree("A") /\ results[k].err = "") =>
         /\ CodeChildren(results[k].val.v.Root[1]) = DirectCodeChildren(SectionA)
         /\ \E ord \in MapOrders(doc, QTree(TreeModeDefault)) :
              results[k].val.v.Root[1] = DocBuildSectionTree(doc, SectionA, TreeModeDefault, ord)

\* ---------------------------------------------------------------------------
\* computeLineStarts and getLineNumber; a source is a sequence of bytes
\* ---------------------------------------------------------------------------
MaxSourceLen == 4

Bytes == {"x", "\n"}
Sources == UNION {[1..n -> Bytes] : n \in 0..MaxSourceLen}

\* computeLineStarts: 0, then i+1 for every newline at (0-based) offset i
ComputeLineStarts(source) ==
  <<0>> \o SelectSeq([i \in DOMAIN source |-> i], LAMBDA i : source[i] = "\n")

\* mid := (lo + hi + 1) / 2
MidLow(lo, hi) == (lo + hi) \div 2
Mid(lo, hi) == (lo + hi + 1) \div 2

InitLines ==
  /\ walked = <<>>
  /\ trailingNewline = FALSE
  /\ doc = EmptyDoc
  /\ sectionStack = <<>>
  /\ currentSection = Nil
  /\ pc = "computeLineStarts"
  /\ NoEval
  /\ \E source \in Sources : fnArgs \in {<<source, offset>> : offset \in 0..Len(source)}
  /\ fnOut = NotRun

\* lineStarts := computeLineStarts(doc.source), then the entry of
\* getLineNumber: lo, hi := 0, len(lineStarts)-1
CallGetLineNumber ==
  /\ pc = "computeLineStarts"
  /\ results' = <<ComputeLineStarts(fnArgs[1])>>
  /\ tasks' = <<[lo |-> 0, hi |-> Len(ComputeLineStarts(fnArgs[1])) - 1]>>
  /\ pc' = "getLineNumber"
  /\ UNCHANGED <<walked, trailingNewline, doc, sectionStack, currentSection, query, current, fnVars>>

\* one iteration of `for lo < hi`
SearchIteration ==
  /\ pc = "getLineNumber"
  /\ tasks[1].lo < tasks[1].hi
  /\ LET mid == Mid(tasks[1].lo, tasks[1].hi) IN
     IF results[1][mid + 1] <= fnArgs[2]
     THEN tasks' = <<[tasks[1] EXCEPT !.lo = mid]>>
     ELSE tasks' = <<[tasks[1] EXCEPT !.hi = mid - 1]>>
  /\ UNCHANGED <<walked, trailingNewline, doc, sectionStack, currentSection, pc, query, current,
                 results, fnVars>>

\* return lo + 1
ReturnLineNumber ==
  /\ pc = "getLineNumber"
  /\ ~(tasks[1].lo < tasks[1].hi)
  /\ fnOut' = Outcome(IntV(tasks[1].lo + 1), "")
  /\ pc' = "returned"
  /\ UNCHANGED <<walked, trailingNewline, doc, sectionStack, currentSection, query, current,
                 results, tasks, fnArgs>>

NextLines == CallGetLineNumber \/ SearchIteration \/ ReturnLineNumber

\* the calls run to completion: no step of the sequential code is postponed for ever
SpecLines == InitLines /\ [][NextLines]_vars /\ WF_vars(NextLines)

\* the newline bytes of the source strictly before an offset
NewlinesBefore(source, offset) == {i \in DOMAIN source : source[i] = "\n" /\ i - 1 < offset}

LineStartsShape ==
  results # <<>> =>
    /\ results[1][1] = 0
    /\ \A i, j \in DOMAIN results[1] : i < j => results[1][i] < results[1][j]
    /\ Len(results[1]) = Cardinality(NewlinesBefore(fnArgs[1], Len(fnArgs[1]))) + 1

LineNumberReturned ==
  pc = "returned" => fnOut.val.v = 1 + Cardinality(NewlinesBefore(fnArgs[1], fnArgs[2]))

\* C26: for every source and every offset 0 <= o <= len(source),
\* getLineNumber(computeLineStarts(source), o) terminates and returns 1 + the
\* number of newline bytes strictly before o; computeLineStarts is strictly
\* increasing, starts with 0 and has (number of newlines) + 1 entries.
C26_LineNumber == [](LineStartsShape /\ LineNumberReturned) /\ <>(pc = "returned")

C26_Witness ==
  /\ pc = "returned"
  /\ Len(results[1]) = 4
  /\ fnArgs[2] = 2
  /\ fnOut.val.v = 3

\* ---------------------------------------------------------------------------
\* Evaluation errors of sub-nodes
\* ---------------------------------------------------------------------------

\* .code | filter(p), with the predicate as the parser builds it
CodeFilter(p) == PipeN(SelectorN("code", <<>>), FilterN(p))

\* .nosuch | .code
QLeftFails == PipeN(SelectorN("nosuch", <<>>), SelectorN("code", <<>>))
\* .code | filter(.lines > 0) | .nosuch
QRightFails ==
  PipeN(CodeFilter(BinaryN(">", IdentifierN("lines"), LiteralN(Int64V(0)))),
        SelectorN("nosuch", <<>>))
\* the predicates  .nosuch    .lines > .nosuch    .nosuch == .lines
\*                 .language == "go" or .nosuch    .lines > 0
FailingPredicates ==
  {IdentifierN("nosuch"),
   BinaryN(">", IdentifierN("lines"), IdentifierN("nosuch")),
   BinaryN("==", IdentifierN("nosuch"), IdentifierN("lines")),
   BinaryN("or", BinaryN("==", IdentifierN("language"), LiteralN(StrV("go"))), IdentifierN("nosuch")),
   BinaryN(">", IdentifierN("lines"), LiteralN(Int64V(0)))}

InitErr ==
  /\ walked \in TextDocs
  /\ trailingNewline = TRUE
  /\ doc = Parse(walked, trailingNewline, {})
  /\ sectionStack = <<>>
  /\ currentSection = Nil
  /\ pc = "done"
  /\ query \in {QLeftFails, QRightFails} \cup {CodeFilter(p) : p \in FailingPredicates}
  /\ current = NilV
  /\ results = <<>>
  /\ tasks = <<>>
  /\ NoFn

SpecErr == InitErr /\ [][NextQuery]_vars

\* GetLines was never called on the block: its line count is not memoised
Untouched(c) == doc.codeBlocks[c].Lines = FencedNodes[c].lines

\* the error of a node evaluated on its own with Current the value cur
ErrorOf(node, cur) == Eval(node, cur, doc, SomeOrder(LangKeys)).err

\* the code blocks on which the predicate of the filter fails
FailingBlocks == {c \in DOMAIN doc.codeBlocks : ErrorOf(query.right.predicate, CodeBlockV(c)) # ""}

\* what a Binary node returns for the errors of its operands: the left error,
\* else (unless `or` stops at a true left operand) the right error
OperandError(node, cur) ==
  IF ErrorOf(node.left, cur) # "" THEN ErrorOf(node.left, cur)
  ELSE IF node.operator = "or" /\ cur.t = "*CodeBlock" /\ doc.codeBlocks[cur.v].Language = "go"
  THEN ""
  ELSE ErrorOf(node.right, cur)

ErrorsPropagate(out) ==
  /\ query = QLeftFails =>
       /\ out.err = ErrorOf(SelectorN("nosuch", <<>>), DocV) /\ out.err # "" /\ out.val = NilV
       /\ \A c \in DOMAIN doc.codeBlocks : Untouched(c)
  /\ query = QRightFails =>
       /\ out.err = ErrorOf(SelectorN("nosuch", <<>>), CodeBlocksV(<<>>)) /\ out.err # ""
       /\ out.val = NilV
  /\ (query.right.kind = "Filter" /\ FailingBlocks = {}) => out.err = ""
  /\ (query.right.kind = "Filter" /\ FailingBlocks # {}) =>
       /\ out.err = ErrorOf(query.right.predicate, CodeBlockV(SetMin(FailingBlocks)))
       /\ out.val = NilV
       /\ \A c \in DOMAIN doc.codeBlocks : c > SetMin(FailingBlocks) => Untouched(c)
       /\ query.right.predicate.kind = "Binary" =>
            /\ out.err = OperandError(query.right.predicate, CodeBlockV(SetMin(FailingBlocks)))
            /\ ErrorOf(query.right.predicate.left, CodeBlockV(SetMin(FailingBlocks))) # "" =>
                 \A c \in FailingBlocks : Untouched(c)

SectionLevel(sid) == doc.headings[doc.sections[sid].Heading].Level

\* C28: during indexing, after every processed node, the heading levels of the
\* sections on the open-section stack strictly increase from bottom to top, each
\* stacked section's Parent is the section directly below it (none for the
\* bottom one), and currentSection is the top of the stack, absent only before
\* the first heading.
C28_OpenSectionStack ==
  /\ \A i, j \in DOMAIN sectionStack : i < j => SectionLevel(sectionStack[i]) < SectionLevel(sectionStack[j])
  /\ \A i \in DOMAIN sectionStack :
       doc.sections[sectionStack[i]].Parent = IF i = 1 THEN Nil ELSE sectionStack[i - 1]
  /\ currentSection = IF sectionStack = <<>> THEN Nil ELSE Last(sectionStack)
  /\ currentSection = Nil <=> \A k \in DOMAIN walked : walked[k].kind # "heading"

\* a deeper section was popped by a shallower heading that then joined the stack
C28_Witness ==
  /\ pc = "walk"
  /\ Len(walked) = 3
  /\ sectionStack = <<1, 3>>
  /\ SectionLevel(2) > SectionLevel(3)
  /\ currentSection = 3

\* ---------------------------------------------------------------------------
\* Line ranges of the sections after indexing
\* ---------------------------------------------------------------------------

\* sections with the same parent, top-level sections having none
Siblings(a, b) == a # b /\ doc.sections[a].Parent = doc.sections[b].Parent

\* C29: after indexing, line ranges nest and do not overlap: for every section C
\* with parent S, S.Start < C.Start and C.End <= S.End; and for two sections
\* with the same parent (or both top-level) the earlier one's End is strictly
\* less than the later one's Start.
C29_RangesNest ==
  Indexed =>
    /\ \A c \in DOMAIN doc.sections :
         doc.sections[c].Parent # Nil =>
           /\ doc.sections[doc.sections[c].Parent].Start < doc.sections[c].Start
           /\ doc.sections[c].End <= doc.sections[doc.sections[c].Parent].End
    /\ \A a, b \in DOMAIN doc.sections :
         (Siblings(a, b) /\ a < b) => doc.sections[a].End < doc.sections[b].Start

\* ---------------------------------------------------------------------------
\* Parse on arbitrary token sequences
\* ---------------------------------------------------------------------------
MaxTokens == 3

\* every stream of up to MaxTokens of these tokens, and every prefix of the
\* query texts above
TokenAlphabet ==
  {TDot, TPipe, TLParen, TRParen, TLBracket, TRBracket, TColon, TEquals, TId("level"), TNum("1"),
   Tok("Comma", ","), Tok("And", "and")}
TokenStreams ==
  UNION {[1..n -> TokenAlphabet] : n \in 0..MaxTokens}
    \cup UNION {{SubSeq(text, 1, n) : n \in 0..Len(text)} : text \in QueryTexts}

InitParse ==
  /\ walked = <<>>
  /\ trailingNewline = FALSE
  /\ doc = EmptyDoc
  /\ sectionStack = <<>>
  /\ currentSection = Nil
  /\ pc = "done"
  /\ NoEval
  /\ fnArgs \in {<<ts>> : ts \in TokenStreams}
  /\ fnOut = NotRun

\* Parse(tokens): the AST or the error, and where the parser stands when it returns
ParseAll ==
  /\ fnOut = NotRun
  /\ LET r == ParseTokens(fnArgs[1])
     IN /\ fnOut' = Outcome(IF r.err = "" THEN NodeV(r.node) ELSE NilV, r.err)
        /\ query' = r.node
        /\ tasks' = <<r.pos>>
  /\ UNCHANGED <<walked, trailingNewline, doc, sectionStack, currentSection, pc, current,
                 results, fnArgs>>

NextParse == ParseAll

SpecParse == InitParse /\ [][NextParse]_vars

Parsed == fnOut.err # NotRun.err

\* the parse functions that descend, and the loops with the token that makes
\* them iterate
DescentRules ==
  {"ParseExpression", "ParsePrimary", "ParseSelector", "ParseFunction", "ParseArguments",
   "ParseComparison", "ParseLogical", "ParseProperty", "ParseIndex"}
LoopRules == {"PipeLoop", "LogicalLoop", "IndexLoop", "ArgumentLoop"}
Iterates(rule, token) ==
  CASE rule = "PipeLoop" -> token.type = "Pipe"
    [] rule = "LogicalLoop" -> token.type \in {"And", "Or"}
    [] rule = "IndexLoop" -> token.type = "LBracket"
    [] rule = "ArgumentLoop" -> TRUE
Accumulator(rule) == IF rule = "ArgumentLoop" THEN <<>> ELSE IdentifierN("x")

\* from every position: a descent never moves back and, when it succeeds, has
\* consumed a token; a loop that iterates has consumed a token or returned an error
ConsumesOrReturns(ts) ==
  \A pos \in 1..Len(ts) + 1 :
    /\ \A rule \in DescentRules :
         LET r == ParseRule(rule, ts, pos, Accumulator(rule))
         IN r.pos \in pos..Len(ts) + 1 /\ (r.err = "" => r.pos > pos)
    /\ \A rule \in LoopRules :
         LET r == ParseRule(rule, ts, pos, Accumulator(rule))
         IN /\ r.pos \in pos..Len(ts) + 1
            /\ Iterates(rule, ParserCurrent(ts, pos)) => (r.pos > pos \/ r.err # "")

\* the parser's position when Parse has returned, and the progress that bounds
\* the number of iterations and descents by the number of tokens
ParseConsumesAll ==
  Parsed =>
    /\ Len(fnArgs[1]) <= MaxTokens => ConsumesOrReturns(fnArgs[1])
    /\ tasks[1] \in 1..Len(fnArgs[1]) + 1
    /\ fnOut.err = "" => tasks[1] = Len(fnArgs[1]) + 1

\* C30: Parse terminates on every finite token sequence: each loop iteration and
\* each recursive descent consumes at least one token or returns, and a
\* successful Parse has consumed every token except EOF.
C30_ParseTerminates == ParseConsumesAll

C30_Witness ==
  /\ Parsed
  /\ fnOut.err = ""
  /\ fnArgs[1] = TextsOfLevel("1")
  /\ query.kind = "Pipe"
  /\ query.right.kind = "Function"
  /\ tasks[1] = Len(fnArgs[1]) + 1

====
